---- MODULE Spec2Model ----
(***************************************************************************)
(* Model of the yacht-job scraping pipeline: the jobs table, the two batch *)
(* save routines (ScrapingService._save_jobs and                           *)
(* Daywork123Scraper.save_jobs_to_db), and ScrapingService.scrape_source   *)
(* over the scraper registry.                                              *)
(*                                                                         *)
(* A SQLAlchemy session (autocommit=False, autoflush=False) is modelled by *)
(* its identity map (objects loaded by a query, with the values they were  *)
(* loaded with and their current values) and its list of pending new       *)
(* objects.  Nothing is written to the table before commit; commit flushes *)
(* all pending INSERTs and UPDATEs in one transaction, and an integrity    *)
(* error in any of them rolls the whole transaction back.                  *)
(*                                                                         *)
(* Further specifications in this module: SpecPages runs scrape_source     *)
(* page by page through the two adapters' scrape_jobs loops; SpecAll runs  *)
(* scrape_all_sources; SpecClassify, SpecScore and SpecExtract apply the   *)
(* adapters' keyword detections, quality score and field extraction to     *)
(* bounded sets of cards; SpecScript runs the stand-alone script's         *)
(* save_jobs_to_database; SpecDates applies the date parsers to bounded    *)
(* date texts; SpecScheduler drives SchedulerService (start, stop,         *)
(* restart, schedule updates); SpecTracked and SpecTrackedFair run the     *)
(* executions that keep a ScrapingJob record; SpecHealth runs              *)
(* health_check_all.                                                       *)
(***************************************************************************)
EXTENDS Integers, Sequences, FiniteSets, TLC

\* ------------------------------------------------------------------ bounds
\* Total number of job records handed to the save routines in a behaviour.
MaxRecords == 3
\* Largest max_pages a caller passes to scrape_source.
MaxPages == 3
\* Largest number of words in a title handed to the classifiers.
MaxWords == 2
\* Longest description handed to the quality score.
MaxDescLen == 201

\* A column that holds NULL / a Python None.
Null == <<>>

\* JobSource members that have a registered scraper, in registration order.
Registered == <<"yotspot", "daywork123">>
RegisteredSet == {Registered[k] : k \in 1..Len(Registered)}
\* Source names a caller may pass to scrape_source.
SourceNames == RegisteredSet \cup {"nosuch"}
\* External ids the source sites hand out, and observation versions
\* (two scrapes of one posting may see different field values).
ExtIds == {"e1", "e2"}
Versions == {1, 2}
\* Processes that may hold a session on the database.
Procs == {"p1", "p2"}

\* ------------------------------------------------------------- data model
\* Fields of UniversalJob other than its key (external_id, source).
JobContentFields ==
    {"title", "company", "source_url", "location", "country", "region",
     "vessel_type", "vessel_size", "vessel_name", "employment_type",
     "department", "position_level", "salary_range", "salary_currency",
     "salary_period", "start_date", "posted_date", "description",
     "requirements", "benefits", "scraped_at", "quality_score", "raw_data"}

\* Columns of the jobs table.
JobColumns ==
    {"id", "external_id", "title", "company", "location", "vessel_type",
     "vessel_size", "vessel_name", "job_type", "employment_type",
     "department", "position_level", "salary_range", "salary_currency",
     "salary_per", "salary_period", "start_date", "posted_at", "posted_date",
     "description", "requirements", "benefits", "country", "region",
     "source_url", "source", "is_featured", "quality_score", "raw_data",
     "scraped_at", "created_at", "updated_at"}

\* The value field f carries in observation version v.
Val(f, v) == <<f, v>>

\* A UniversalJob: key (source, external_id) and content of version v.
UniversalJob(src, ext, v) ==
    [f \in JobContentFields \cup {"external_id", "source"} |->
        IF f = "external_id" THEN ext
        ELSE IF f = "source" THEN src
        ELSE Val(f, v)]

AllJobs == {UniversalJob(s, e, v) : s \in RegisteredSet, e \in ExtIds, v \in Versions}
JobsOf(src) == {UniversalJob(src, e, v) : e \in ExtIds, v \in Versions}

\* All batches (lists) of at most n jobs drawn from S.
Batches(S, n) == UNION {[1..m -> S] : m \in 0..n}

\* str(job.source_url)
Str(u) == <<"str", u>>

\* ------------------------------------------------- rows and the two writers
\* A Job object on which no attribute has been set.
BlankJob == [c \in JobColumns |-> Null]

\* row with the columns in cols assigned from the same-named fields of job.
Assign(row, job, cols) ==
    [c \in JobColumns |-> IF c \in cols THEN job[c] ELSE row[c]]

\* Attributes ScrapingService._save_jobs assigns on an existing job.
SaveJobsUpdateCols ==
    {"title", "company", "location", "description", "salary_range",
     "employment_type", "department", "vessel_type", "quality_score"}

\* Variants of the update with one assignment left out.
UpdateExisting_NoTitle(row, job, now) ==
    [Assign(row, job, SaveJobsUpdateCols \ {"title"}) EXCEPT !["updated_at"] = now]

UpdateExisting_NoUpdatedAt(row, job, now) ==
    Assign(row, job, SaveJobsUpdateCols)

\* ScrapingService._save_jobs, "Update existing job": now is utcnow().
UpdateExisting_save_jobs(row, job, now) ==
    [Assign(row, job, SaveJobsUpdateCols) EXCEPT !["updated_at"] = now]

\* Keyword arguments ScrapingService._save_jobs copies into a new Job.
SaveJobsInsertCols ==
    {"external_id", "title", "company", "location", "description", "source",
     "salary_range", "employment_type", "department", "vessel_type",
     "posted_date", "quality_score"}

\* ScrapingService._save_jobs, "Create new job": two readings of utcnow().
CreateNew_save_jobs(job, now) ==
    [Assign(BlankJob, job, SaveJobsInsertCols) EXCEPT
        !["source_url"] = Str(job["source_url"]),
        !["created_at"] = now,
        !["updated_at"] = now + 1]

\* Attributes Daywork123Scraper.save_jobs_to_db assigns on an existing job.
SaveToDbUpdateCols ==
    {"title", "company", "location", "country", "region", "description",
     "salary_range", "salary_currency", "salary_period", "employment_type",
     "department", "vessel_type", "vessel_size", "vessel_name",
     "position_level", "start_date", "requirements", "benefits",
     "posted_date", "quality_score", "raw_data"}

\* Daywork123Scraper.save_jobs_to_db, "Update existing job".
UpdateExisting_save_jobs_to_db(row, job, now) ==
    [Assign(row, job, SaveToDbUpdateCols) EXCEPT
        !["job_type"] = job["employment_type"],
        !["updated_at"] = now]

\* Keyword arguments Daywork123Scraper.save_jobs_to_db copies into a new Job.
SaveToDbInsertCols ==
    SaveToDbUpdateCols \cup {"external_id", "source", "scraped_at"}

\* Daywork123Scraper.save_jobs_to_db, "Create new job".
CreateNew_save_jobs_to_db(job, now) ==
    [Assign(BlankJob, job, SaveToDbInsertCols) EXCEPT
        !["source_url"] = Str(job["source_url"]),
        !["job_type"] = job["employment_type"],
        !["posted_at"] = job["posted_date"],
        !["created_at"] = now,
        !["updated_at"] = now + 1]

\* The writer a call uses: scrape_source saves through _save_jobs.
UpdateExisting(op, row, job, now) ==
    IF op = "save_jobs_to_db" THEN UpdateExisting_save_jobs_to_db(row, job, now)
    ELSE UpdateExisting_save_jobs(row, job, now)

CreateNew(op, job, now) ==
    IF op = "save_jobs_to_db" THEN CreateNew_save_jobs_to_db(job, now)
    ELSE CreateNew_save_jobs(job, now)

\* Column defaults of Job applied when a pending object is INSERTed: the
\* surrogate id, is_featured, and scraped_at when it was not given.
InsertDefaults(row, id, now) ==
    [row EXCEPT
        !["id"] = id,
        !["is_featured"] = FALSE,
        !["scraped_at"] = IF row["scraped_at"] = Null THEN <<"utcnow", now>>
                          ELSE row["scraped_at"]]

\* db.query(Job).filter(external_id == ..., source == ...): the committed
\* rows that match (autoflush is off: pending objects are not visible).
QueryByKey(table, job) ==
    {r \in table : r["external_id"] = job["external_id"]
                   /\ r["source"] = job["source"]}

\* The UPDATE a flush emits for a loaded object: only the attributes whose
\* current value differs from the loaded value are written to the row.
FlushUpdate(dbrow, entry) ==
    [c \in JobColumns |->
        IF entry.cur[c] # entry.loaded[c] THEN entry.cur[c] ELSE dbrow[c]]

\* Table after the flush's UPDATEs.
AfterUpdates(table, identity) ==
    {IF \E e \in identity : e.loaded["id"] = r["id"]
       THEN FlushUpdate(r, CHOOSE e \in identity : e.loaded["id"] = r["id"])
       ELSE r : r \in table}

\* Rows the flush INSERTs for the pending objects, in the order added.
Inserted(new, id0, now) ==
    {InsertDefaults(new[k], id0 + k - 1, now) : k \in 1..Len(new)}

\* Variant of the constraints without the unique index.
IntegrityOK_NoUnique(table, new) ==
    \A k \in 1..Len(new) : new[k]["title"] # Null

\* Job.external_id is unique=True; Job.id is the primary key; title is
\* nullable=False.  TRUE iff the flush violates none of them.
IntegrityOK(table, new) ==
    /\ \A k \in 1..Len(new) :
          /\ new[k]["title"] # Null
          /\ \A r \in table : r["external_id"] # new[k]["external_id"]
    /\ \A k1, k2 \in 1..Len(new) :
          k1 # k2 => new[k1]["external_id"] # new[k2]["external_id"]

\* ------------------------------------------------------------------ state
VARIABLES
    jobs_table,   \* committed rows of table "jobs"
    clock,        \* the next reading of datetime.utcnow()
    uuid_next,    \* the next value of uuid.uuid4()
    records,      \* number of job records handed to saves so far
    run,          \* per process: the call in progress and its session
    all_sources,  \* the scrape_all_sources call in progress
    norm,         \* the card an adapter is normalizing, and what came of it
    scheduler,    \* the SchedulerService, its ScrapingScheduler and its config
    scraping_jobs \* rows of table "scraping_jobs" and the executions in progress

vars ==
    <<jobs_table, clock, uuid_next, records, run, all_sources, norm,
      scheduler, scraping_jobs>>

\* What a call returns / reports.
NoResult ==
    [jobs_found |-> 0, new_jobs |-> 0, updated_jobs |-> 0, saved |-> 0,
     errors |-> <<>>]

\* No scrape_all_sources call yet: no source list, no results.
IdleAll ==
    [pc |-> "idle", sources |-> <<>>, k |-> 1, results |-> <<>>, log |-> <<>>]

\* A process before a call: no session, nothing pending.
IdleRun ==
    [pc |-> "idle", op |-> "none", source_name |-> "", jobs |-> <<>>, i |-> 1,
     identity |-> {}, new |-> <<>>,
     new_jobs_count |-> 0, updated_jobs_count |-> 0, saved_count |-> 0,
     outcome |-> "none", fetched |-> 0,
     max_pages |-> 0, page |-> 1, requested |-> <<>>, pages |-> <<>>,
     yielded |-> <<>>,
     pre |-> {}, result |-> NoResult]

\* SchedulerConfig: the class attributes read from the environment. The
\* lists of a period are its hours and its minutes.
DefaultConfig ==
    [MORNING_HOURS |-> <<6, 7>>, MORNING_MINUTES |-> <<0, 30>>,
     DAY_HOURS |-> <<12>>, DAY_MINUTES |-> <<0>>,
     EVENING_HOURS |-> <<18>>, EVENING_MINUTES |-> <<0>>,
     DAYWORK123_MAX_PAGES |-> 5, MAX_INSTANCES |-> 1]

\* SchedulerService.__init__ and ScrapingScheduler.__init__: class_config
\* holds the attributes of class SchedulerConfig, config what the attributes
\* of the instance self.config read as (the service and its scheduler share
\* the instance), jobs the ids of the jobs of the APScheduler, running its
\* "running" property, _running the flag of the service, call and result
\* the last call made on the service and what it answered.
IdleScheduler ==
    [class_config |-> DefaultConfig, config |-> DefaultConfig, jobs |-> {},
     running |-> FALSE, _running |-> FALSE, call |-> Null, result |-> Null]

\* Table "scraping_jobs", and the tracked executions: rows are the committed
\* records, pending the background tasks handed to the server and not run
\* yet, finished the executions that have returned.
NoScrapingJobs == [rows |-> <<>>, pending |-> <<>>, finished |-> <<>>]

Init ==
    /\ jobs_table = {}
    /\ clock = 1
    /\ uuid_next = 1
    /\ records = 0
    /\ run = [p \in Procs |-> IdleRun]
    /\ all_sources = IdleAll
    /\ scheduler = IdleScheduler
    /\ scraping_jobs = NoScrapingJobs
    /\ norm = Null

\* --------------------------------------------------------------- registry
\* Variant of the registry lookup that never raises.
IsRegistered_Always(source_name) == TRUE

\* ScraperRegistry.get_scraper: TRUE iff it returns an instance; otherwise
\* it raises ValueError("Unknown scraper: ...").
IsRegistered(source_name) == source_name \in RegisteredSet

\* Adapters whose scrape_jobs lets an exception out: Daywork123Scraper
\* re-raises, YotspotScraper catches per page and goes on.
MayRaise(source_name) == source_name = "daywork123"

\* ---------------------------------------------------------------- actions
Idle(p) == run[p].pc \in {"idle", "done"}

\* await service.scrape_source(name): get_scraper either raises, which the
\* handler turns into an error result, or hands back the adapter.
Call_scrape_source(p) ==
    /\ Idle(p)
    /\ \E name \in SourceNames :
          run' = [run EXCEPT ![p] =
                    IF IsRegistered(name)
                    THEN [IdleRun EXCEPT !.pc = "scrape",
                                         !.op = "scrape_source",
                                         !.source_name = name,
                                         !.pre = jobs_table]
                    ELSE [IdleRun EXCEPT !.pc = "done",
                                         !.op = "scrape_source",
                                         !.source_name = name,
                                         !.pre = jobs_table,
                                         !.result.errors =
                                             <<"Unknown scraper: " \o name>>]]
    /\ UNCHANGED <<jobs_table, clock, uuid_next, records, all_sources, norm, scheduler, scraping_jobs>>

\* async for job in scraper.scrape_jobs(...): the adapter fetches pages and
\* yields a list of jobs of its own source, or raises; an empty list skips
\* the save.
ScrapeJobs(p) ==
    /\ run[p].pc = "scrape"
    /\ \/ \E js \in Batches(JobsOf(run[p].source_name), MaxRecords - records) :
             /\ run' = [run EXCEPT ![p] =
                          IF js = <<>>
                          THEN [@ EXCEPT !.pc = "done", !.fetched = 1]
                          ELSE [@ EXCEPT !.pc = "loop", !.fetched = 1,
                                         !.jobs = js,
                                         !.result.jobs_found = Len(js)]]
             /\ records' = records + Len(js)
       \/ /\ MayRaise(run[p].source_name)
          /\ run' = [run EXCEPT ![p] =
                       [@ EXCEPT !.pc = "done", !.fetched = 1,
                                 !.result.errors = <<"scrape_jobs raised">>]]
          /\ UNCHANGED records
    /\ UNCHANGED <<jobs_table, clock, uuid_next, all_sources, norm, scheduler, scraping_jobs>>

\* await scraper.save_jobs_to_db(jobs): an empty list returns 0 at once.
Call_save_jobs_to_db(p) ==
    /\ Idle(p)
    /\ \E js \in Batches(AllJobs, MaxRecords - records) :
          /\ run' = [run EXCEPT ![p] =
                       [IdleRun EXCEPT !.pc = IF js = <<>> THEN "done" ELSE "loop",
                                       !.op = "save_jobs_to_db",
                                       !.jobs = js,
                                       !.pre = jobs_table]]
          /\ records' = records + Len(js)
    /\ UNCHANGED <<jobs_table, clock, uuid_next, all_sources, norm, scheduler, scraping_jobs>>

\* The identity-map entry for a queried row: the object already loaded in
\* this session if there is one, else the row as just read.
Loaded(identity, r) ==
    IF \E e \in identity : e.loaded["id"] = r["id"]
    THEN CHOOSE e \in identity : e.loaded["id"] = r["id"]
    ELSE [loaded |-> r, cur |-> r]

\* Variant of the counting in which _save_jobs counts every job twice.
Counts_Twice(op) == IF op = "save_jobs_to_db" THEN 0 ELSE 2

\* _save_jobs counts new and updated jobs (1); save_jobs_to_db keeps one
\* saved_count instead (0).
Counts(op) == IF op = "save_jobs_to_db" THEN 0 ELSE 1

\* One turn of "for job in jobs": look the key up, then update the object
\* found or add a new one.  Nothing is written here (autoflush is off), so
\* no store constraint can fail inside the loop body.
SaveRecord(p) ==
    LET st == run[p]
        job == st.jobs[st.i]
        hits == QueryByKey(jobs_table, job)
        nextpc == IF st.i = Len(st.jobs) THEN "commit" ELSE "loop"
    IN  /\ st.pc = "loop"
        /\ \/ \* existing_job found
              /\ hits # {}
              /\ LET e == Loaded(st.identity, CHOOSE r \in hits : TRUE)
                     e2 == [loaded |-> e.loaded,
                            cur |-> UpdateExisting(st.op, e.cur, job, clock)]
                 IN run' = [run EXCEPT ![p] =
                              [@ EXCEPT !.pc = nextpc, !.i = st.i + 1,
                                        !.identity = (@ \ {e}) \cup {e2},
                                        !.updated_jobs_count = @ + Counts(st.op),
                                        !.saved_count = @ + 1 - Counts(st.op)]]
              /\ clock' = clock + 1
           \/ \* no existing job: db.add(Job(...))
              /\ hits = {}
              /\ run' = [run EXCEPT ![p] =
                           [@ EXCEPT !.pc = nextpc, !.i = st.i + 1,
                                     !.new = Append(@, CreateNew(st.op, job, clock)),
                                     !.new_jobs_count = @ + Counts(st.op),
                                     !.saved_count = @ + 1 - Counts(st.op)]]
              /\ clock' = clock + 2
        /\ UNCHANGED <<jobs_table, uuid_next, records, all_sources, norm, scheduler, scraping_jobs>>

\* db.commit(): flush every pending UPDATE and INSERT in one transaction;
\* an integrity error rolls all of them back and the save returns zeros.
\* The clock moves on while the transaction is written.
Commit(p) ==
    LET st == run[p]
        updated == AfterUpdates(jobs_table, st.identity)
    IN  /\ st.pc = "commit"
        /\ \/ /\ IntegrityOK(jobs_table, st.new)
              /\ jobs_table' = updated \cup Inserted(st.new, uuid_next, clock)
              /\ uuid_next' = uuid_next + Len(st.new)
              /\ clock' = clock + 1
              /\ run' = [run EXCEPT ![p] =
                           [@ EXCEPT !.pc = "done", !.outcome = "committed",
                                     !.result.new_jobs = st.new_jobs_count,
                                     !.result.updated_jobs = st.updated_jobs_count,
                                     !.result.saved = st.saved_count]]
           \/ /\ ~IntegrityOK(jobs_table, st.new)
              /\ run' = [run EXCEPT ![p] =
                           [@ EXCEPT !.pc = "done", !.outcome = "rolled_back"]]
              /\ UNCHANGED <<jobs_table, uuid_next, clock, scheduler, scraping_jobs>>
        /\ UNCHANGED <<records, all_sources, norm, scheduler, scraping_jobs>>

Step(p) ==
    \/ Call_scrape_source(p)
    \/ ScrapeJobs(p)
    \/ Call_save_jobs_to_db(p)
    \/ SaveRecord(p)
    \/ Commit(p)

\* One process at a time: a save has no await in it, so within one event
\* loop the saves of different runs never interleave.
Next == Step("p1")

Spec == Init /\ [][Next]_vars

\* Several processes (the server, the CLI, the stand-alone scripts) each
\* with its own session on the same database, each making one call.
ConcStep(p) ==
    \/ run[p].pc = "idle" /\ Call_scrape_source(p)
    \/ ScrapeJobs(p)
    \/ run[p].pc = "idle" /\ Call_save_jobs_to_db(p)
    \/ SaveRecord(p)
    \/ Commit(p)

NextConc == \E p \in Procs : ConcStep(p)

SpecConc == Init /\ [][NextConc]_vars

\* ------------------------------------------------- page-by-page adapters
\* What a listing-page request comes back with: ok = FALSE when the page
\* could not be reached (timeout, non-200 status, network error), else the
\* cards found on it.  A card is <<job>> when it normalizes to a job and
\* <<>> when its normalization or validation fails.
BadCard == <<>>
Cards(src) == {<<j>> : j \in JobsOf(src)} \cup {BadCard}
PageFailed == [ok |-> FALSE, cards |-> <<>>]
Responses(src, n) ==
    {PageFailed} \cup {[ok |-> TRUE, cards |-> cs] : cs \in Batches(Cards(src), n)}

\* The jobs carried by a list of good cards.
Unwrap(cards) == [k \in 1..Len(cards) |-> cards[k][1]]
IsGood(card) == card # BadCard

\* YotspotScraper: _scrape_page turns an unreachable page into []; the
\* jobs of a page are yielded one by one by "yield self._normalize_job(job)"
\* inside the page's try, so the first card whose normalization raises ends
\* the page.
FirstBad(cards) ==
    IF \E k \in 1..Len(cards) : ~IsGood(cards[k])
    THEN CHOOSE k \in 1..Len(cards) :
            /\ ~IsGood(cards[k])
            /\ \A m \in 1..(k - 1) : IsGood(cards[m])
    ELSE Len(cards) + 1
YotspotPage(resp) ==
    IF resp.ok THEN Unwrap(SubSeq(resp.cards, 1, FirstBad(resp.cards) - 1))
    ELSE <<>>

\* Daywork123Scraper: every table row goes through
\* _extract_job_from_element in a try of its own; None or an exception
\* skips the row.
Daywork123Page(resp) == Unwrap(SelectSeq(resp.cards, IsGood))

\* The jobs one page request makes the adapter yield.
PageYield(src, resp) ==
    IF src = "yotspot" THEN YotspotPage(resp) ELSE Daywork123Page(resp)

\* The page request makes scrape_jobs raise: Daywork123Scraper lets the
\* goto / wait_for_selector failure out (except Exception: raise).
PageRaises(src, resp) == MayRaise(src) /\ ~resp.ok

\* The generator ends after this page: the last page of range(1,
\* max_pages + 1), or Daywork123Scraper's "if jobs_found == 0: break".
LastPage(src, page, max_pages, got) ==
    \/ page = max_pages
    \/ src = "daywork123" /\ got = <<>>

\* await service.scrape_source(name, max_pages): as Call_scrape_source,
\* with the number of pages the adapter is asked for.
Call_scrape_source_max_pages(p) ==
    /\ run[p].pc = "idle"
    /\ \E name \in SourceNames, mp \in 1..MaxPages :
          run' = [run EXCEPT ![p] =
                    IF IsRegistered(name)
                    THEN [IdleRun EXCEPT !.pc = "pages",
                                         !.op = "scrape_source",
                                         !.source_name = name,
                                         !.max_pages = mp,
                                         !.pre = jobs_table]
                    ELSE [IdleRun EXCEPT !.pc = "done",
                                         !.op = "scrape_source",
                                         !.source_name = name,
                                         !.max_pages = mp,
                                         !.pre = jobs_table,
                                         !.result.errors =
                                             <<"Unknown scraper: " \o name>>]]
    /\ UNCHANGED <<jobs_table, clock, uuid_next, records, all_sources, norm, scheduler, scraping_jobs>>

\* One turn of the adapter's page loop inside "async for job in
\* scraper.scrape_jobs(max_pages=...)": request the page, yield its jobs,
\* then go on, end, or raise.  When the generator ends scrape_source saves
\* the collected jobs (none: the save is skipped); when it raises,
\* scrape_source returns zero counts and the error.
FetchPage(p) ==
    LET st == run[p]
        src == st.source_name
    IN  /\ st.pc = "pages"
        /\ \E resp \in Responses(src, MaxRecords - records) :
              LET got == PageYield(src, resp)
                  all == st.yielded \o got
                  seen == [st EXCEPT !.fetched = 1,
                                     !.requested = Append(@, st.page),
                                     !.pages = Append(@, resp)]
              IN  /\ run' = [run EXCEPT ![p] =
                       IF PageRaises(src, resp)
                       THEN [seen EXCEPT !.pc = "done",
                                         !.result.errors = <<"scrape_jobs raised">>]
                       ELSE IF ~LastPage(src, st.page, st.max_pages, got)
                       THEN [seen EXCEPT !.page = st.page + 1, !.yielded = all]
                       ELSE IF all = <<>>
                       THEN [seen EXCEPT !.pc = "done", !.yielded = all]
                       ELSE [seen EXCEPT !.pc = "loop", !.yielded = all,
                                         !.jobs = all,
                                         !.result.jobs_found = Len(all)]]
                  /\ records' = records + Len(resp.cards)
        /\ UNCHANGED <<jobs_table, clock, uuid_next, all_sources, norm, scheduler, scraping_jobs>>

\* One scrape_source call, page by page, on an empty table.
NextPages ==
    \/ Call_scrape_source_max_pages("p1")
    \/ FetchPage("p1")
    \/ SaveRecord("p1")
    \/ Commit("p1")

SpecPages == Init /\ [][NextPages]_vars

\* ----------------------------------------------------- scrape_all_sources
\* ScraperRegistry.list_scrapers(): the registered names in registration
\* order (the keys of the registry dict).
list_scrapers == Registered

\* Variant of the delay test that never sleeps.
NeedsDelay_Never(sources, k) == FALSE

\* "if source_name != sources[-1]": sleep 30 s after every source but the
\* one named last.
NeedsDelay(sources, k) == sources[k] # sources[Len(sources)]

\* results = []; sources = self.registry.list_scrapers(); an empty list
\* returns at once.
Call_scrape_all_sources ==
    /\ all_sources.pc = "idle"
    /\ all_sources' = [IdleAll EXCEPT
                         !.pc = IF list_scrapers = <<>> THEN "returned" ELSE "call",
                         !.sources = list_scrapers]
    /\ UNCHANGED <<jobs_table, clock, uuid_next, records, run, norm, scheduler, scraping_jobs>>

\* result = await self.scrape_source(source_name, max_pages): the call for
\* the k-th source begins on the one event loop.
AllCallSource(p) ==
    LET name == all_sources.sources[all_sources.k]
    IN  /\ all_sources.pc = "call"
        /\ Idle(p)
        /\ run' = [run EXCEPT ![p] =
                     IF IsRegistered(name)
                     THEN [IdleRun EXCEPT !.pc = "scrape",
                                          !.op = "scrape_source",
                                          !.source_name = name,
                                          !.pre = jobs_table]
                     ELSE [IdleRun EXCEPT !.pc = "done",
                                          !.op = "scrape_source",
                                          !.source_name = name,
                                          !.pre = jobs_table,
                                          !.result.errors =
                                              <<"Unknown scraper: " \o name>>]]
        /\ all_sources' = [all_sources EXCEPT
                             !.pc = "await",
                             !.log = Append(@, <<"start", name>>)]
        /\ UNCHANGED <<jobs_table, clock, uuid_next, records, norm, scheduler, scraping_jobs>>

\* scrape_source has returned (it returns a result also when the adapter
\* raised): results.append(result), then the delay unless this was the
\* last source, then the next turn of the loop or "return results".
AllReturnSource(p) ==
    LET st == all_sources
        name == st.sources[st.k]
        res == [source |-> name] @@ run[p].result
        logged == [st EXCEPT !.results = Append(@, res),
                             !.log = Append(@, <<"return", name>>)]
    IN  /\ st.pc = "await"
        /\ run[p].pc = "done"
        /\ all_sources' =
              IF NeedsDelay(st.sources, st.k)
              THEN [logged EXCEPT !.pc = "sleep"]
              ELSE IF st.k = Len(st.sources)
              THEN [logged EXCEPT !.pc = "returned"]
              ELSE [logged EXCEPT !.pc = "call", !.k = st.k + 1]
        /\ UNCHANGED <<jobs_table, clock, uuid_next, records, run, norm, scheduler, scraping_jobs>>

\* await asyncio.sleep(30) is over.
AllSleep ==
    LET st == all_sources
    IN  /\ st.pc = "sleep"
        /\ all_sources' =
              IF st.k = Len(st.sources)
              THEN [st EXCEPT !.pc = "returned",
                              !.log = Append(@, <<"slept", st.sources[st.k]>>)]
              ELSE [st EXCEPT !.pc = "call", !.k = st.k + 1,
                              !.log = Append(@, <<"slept", st.sources[st.k]>>)]
        /\ UNCHANGED <<jobs_table, clock, uuid_next, records, run, norm, scheduler, scraping_jobs>>

\* One scrape_all_sources call; the scrape_source calls it awaits run on
\* process p1.
NextAll ==
    \/ Call_scrape_all_sources
    \/ AllCallSource("p1")
    \/ all_sources.pc = "await" /\ ScrapeJobs("p1")
    \/ all_sources.pc = "await" /\ SaveRecord("p1")
    \/ all_sources.pc = "await" /\ Commit("p1")
    \/ AllReturnSource("p1")
    \/ AllSleep

SpecAll == Init /\ [][NextAll]_vars

\* --------------------------------------------------------- classification
\* The members of the EmploymentType, Department and VesselType enums.
EmploymentTypes ==
    {"permanent", "temporary", "rotational", "daywork", "seasonal", "contract"}
Departments == {"deck", "interior", "engineering", "galley", "bridge", "other"}
VesselTypes ==
    {"motor_yacht", "sailing_yacht", "catamaran", "super_yacht", "expedition",
     "chase_boat"}

\* A text is the sequence of its words (the words are joined by single
\* blanks).  The vocabulary holds words with a keyword in them, words that
\* only make a keyword with their neighbour ("day work", "super yacht"),
\* words with none, and one word in capitals.
Words ==
    {"crew", "day", "work", "daywork", "Rotational", "seasonal", "temporary",
     "permanent", "contract", "deckhand", "teammate", "stewardess", "chef",
     "sailing", "super", "yacht"}
Texts(n) == Batches(Words, n)

\* str.lower() of a word.
Lower(w) == IF w = "Rotational" THEN "rotational" ELSE w

\* The one-word keywords of the adapters' lists that are substrings of the
\* lower-case word w ("keyword in text").
KeywordsIn(w) ==
    CASE w = "daywork" -> {"daywork"}
      [] w = "rotational" -> {"rotational", "rotation"}
      [] w = "seasonal" -> {"seasonal", "season"}
      [] w = "temporary" -> {"temporary"}
      [] w = "permanent" -> {"permanent"}
      [] w = "contract" -> {"contract"}
      [] w = "deckhand" -> {"deckhand", "deck"}
      [] w = "teammate" -> {"mate"}
      [] w = "stewardess" -> {"stewardess", "steward"}
      [] w = "chef" -> {"chef"}
      [] w = "sailing" -> {"sailing", "sail"}
      [] OTHER -> {}

\* The first halves of two-word keywords that w ends in, and the second
\* halves that w begins with.
EndsIn(w) == IF w \in {"day", "super"} THEN {w} ELSE {}
BeginsIn(w) == IF w \in {"work", "yacht", "stewardess", "chef"} THEN {w} ELSE {}

\* "kw in text.lower()": a one-word keyword lies inside one word, a
\* two-word keyword across two neighbouring words.
Has(text, kw) ==
    IF Len(kw) = 1
    THEN \E i \in 1..Len(text) : kw[1] \in KeywordsIn(Lower(text[i]))
    ELSE \E i \in 1..(Len(text) - 1) :
            /\ kw[1] \in EndsIn(Lower(text[i]))
            /\ kw[2] \in BeginsIn(Lower(text[i + 1]))

\* any(keyword in text for keyword in keywords)
AnyIn(text, kws) == \E kw \in kws : Has(text, kw)

\* Variant of the department detection that leaves the field unset when no
\* keyword matches.
Daywork123_detect_department_NoDefault(title) ==
    IF AnyIn(title, {<<"deckhand">>, <<"deck">>, <<"mate">>}) THEN "deck"
    ELSE ""

Daywork123_detect_employment_type(title) ==
    IF AnyIn(title, {<<"daywork">>, <<"day", "work">>, <<"daily">>})
    THEN "daywork"
    ELSE IF AnyIn(title, {<<"rotational">>, <<"rotation">>}) THEN "rotational"
    ELSE IF AnyIn(title, {<<"seasonal">>, <<"season">>}) THEN "seasonal"
    ELSE IF AnyIn(title, {<<"contract">>, <<"temporary">>}) THEN "temporary"
    ELSE "permanent"

Daywork123_detect_department(title) ==
    IF AnyIn(title, {<<"deckhand">>, <<"bosun">>, <<"mate">>, <<"captain">>,
                     <<"officer">>, <<"deck">>})
    THEN "deck"
    ELSE IF AnyIn(title, {<<"stewardess">>, <<"steward">>, <<"interior">>,
                          <<"housekeeping">>, <<"butler">>})
    THEN "interior"
    ELSE IF AnyIn(title, {<<"engineer">>, <<"mechanic">>, <<"eto">>,
                          <<"technical">>})
    THEN "engineering"
    ELSE IF AnyIn(title, {<<"chef">>, <<"cook">>, <<"galley">>, <<"kitchen">>})
    THEN "galley"
    ELSE "other"

Daywork123_detect_vessel_type(text) ==
    IF AnyIn(text, {<<"sailing">>, <<"sail">>}) THEN "sailing_yacht"
    ELSE IF AnyIn(text, {<<"catamaran">>}) THEN "catamaran"
    ELSE IF AnyIn(text, {<<"superyacht">>, <<"super", "yacht">>})
    THEN "super_yacht"
    ELSE IF AnyIn(text, {<<"expedition">>}) THEN "expedition"
    ELSE "motor_yacht"

\* The Yotspot detectors take None as the empty text.
Yotspot_detect_employment_type(job_type) ==
    IF AnyIn(job_type, {<<"permanent">>}) THEN "permanent"
    ELSE IF AnyIn(job_type, {<<"temporary">>}) THEN "temporary"
    ELSE IF AnyIn(job_type, {<<"rotational">>}) THEN "rotational"
    ELSE IF AnyIn(job_type, {<<"seasonal">>}) THEN "seasonal"
    ELSE IF AnyIn(job_type, {<<"contract">>}) THEN "contract"
    ELSE "permanent"

Yotspot_detect_department(title) ==
    IF AnyIn(title, {<<"deckhand">>, <<"bosun">>, <<"mate">>, <<"captain">>,
                     <<"officer">>, <<"deck">>, <<"skipper">>})
    THEN "deck"
    ELSE IF AnyIn(title, {<<"stewardess">>, <<"steward">>, <<"interior">>,
                          <<"housekeeping">>, <<"butler">>,
                          <<"chief", "stewardess">>})
    THEN "interior"
    ELSE IF AnyIn(title, {<<"engineer">>, <<"mechanic">>, <<"eto">>,
                          <<"technical">>, <<"chief", "engineer">>})
    THEN "engineering"
    ELSE IF AnyIn(title, {<<"chef">>, <<"cook">>, <<"galley">>, <<"kitchen">>,
                          <<"sous", "chef">>, <<"head", "chef">>})
    THEN "galley"
    ELSE "other"

Yotspot_detect_vessel_type(description) ==
    IF AnyIn(description, {<<"sailing">>, <<"sail">>}) THEN "sailing_yacht"
    ELSE IF AnyIn(description, {<<"catamaran">>}) THEN "catamaran"
    ELSE IF AnyIn(description, {<<"superyacht">>, <<"super", "yacht">>})
    THEN "super_yacht"
    ELSE IF AnyIn(description, {<<"expedition">>}) THEN "expedition"
    ELSE "motor_yacht"

\* title + " " + description
Join(title, description) == title \o description

\* A card whose texts are about to be classified.  For Yotspot "other" is
\* the job type text of the card (empty when the card shows none) and the
\* description is the title; for Daywork123 "other" is the description.
InitClassify ==
    /\ jobs_table = {}
    /\ clock = 1
    /\ uuid_next = 1
    /\ records = 0
    /\ run = [p \in Procs |-> IdleRun]
    /\ all_sources = IdleAll
    /\ scheduler = IdleScheduler
    /\ scraping_jobs = NoScrapingJobs
    /\ norm \in {[pc |-> "card", adapter |-> a, title |-> t, other |-> o,
                  employment_type |-> "", department |-> "",
                  vessel_type |-> ""] :
                    a \in RegisteredSet, t \in Texts(MaxWords), o \in Texts(1)}

\* YotspotScraper._normalize_job, the three detections.
Yotspot_classify ==
    /\ norm.pc = "card"
    /\ norm.adapter = "yotspot"
    /\ norm' = [norm EXCEPT
                  !.pc = "classified",
                  !.employment_type = Yotspot_detect_employment_type(norm.other),
                  !.department = Yotspot_detect_department(norm.title),
                  !.vessel_type = Yotspot_detect_vessel_type(norm.title)]
    /\ UNCHANGED <<jobs_table, clock, uuid_next, records, run, all_sources, scheduler, scraping_jobs>>

\* Daywork123Scraper._extract_job_from_element, the three detections.
Daywork123_classify ==
    /\ norm.pc = "card"
    /\ norm.adapter = "daywork123"
    /\ norm' = [norm EXCEPT
                  !.pc = "classified",
                  !.employment_type = Daywork123_detect_employment_type(norm.title),
                  !.department = Daywork123_detect_department(norm.title),
                  !.vessel_type =
                      Daywork123_detect_vessel_type(Join(norm.title, norm.other))]
    /\ UNCHANGED <<jobs_table, clock, uuid_next, records, run, all_sources, scheduler, scraping_jobs>>

NextClassify ==
    \/ Yotspot_classify
    \/ Daywork123_classify

SpecClassify == InitClassify /\ [][NextClassify]_vars

\* ---------------------------------------------------------- quality score
\* Scores are kept in hundredths (0.6 is 60).  A raw job is modelled by
\* which of its fields are non-empty and by the length of its description;
\* an absent description is the empty string.
RawJobs ==
    [title : BOOLEAN, company : BOOLEAN, location : BOOLEAN, url : BOOLEAN,
     external_id : BOOLEAN, description : 0..MaxDescLen]

\* sum(1 for field in required_fields if job.get(field))
FieldsPresent(job) ==
    Cardinality({f \in {"title", "company", "location"} : job[f]})
       + (IF job.description > 0 THEN 1 ELSE 0)

\* completeness * 0.6 with completeness = present / len(required_fields)
Completeness(job) == (FieldsPresent(job) * 60) \div 4

\* if job.get('url') and job.get('external_id'): score += 0.2
UrlCredit(job) == IF job.url /\ job.external_id THEN 20 ELSE 0

Min(a, b) == IF a < b THEN a ELSE b

\* Variant of the Daywork123 score that credits any description of more
\* than five characters.
Daywork123_calculate_quality_score_ShortCredit(job) ==
    Min(100, Completeness(job) + UrlCredit(job)
                + (IF job.description > 5 THEN 20 ELSE 0))

Daywork123_calculate_quality_score(job) ==
    Min(100, Completeness(job) + UrlCredit(job)
                + (IF job.description > 100 THEN 20
                   ELSE IF job.description > 50 THEN 10 ELSE 0))

Yotspot_calculate_quality_score(job) ==
    Min(100, Completeness(job) + UrlCredit(job)
                + (IF job.description > 200 THEN 20
                   ELSE IF job.description > 100 THEN 10 ELSE 0))

\* A raw job about to be scored; quality_score starts at the field's
\* default 0.0.
InitScore ==
    /\ jobs_table = {}
    /\ clock = 1
    /\ uuid_next = 1
    /\ records = 0
    /\ run = [p \in Procs |-> IdleRun]
    /\ all_sources = IdleAll
    /\ scheduler = IdleScheduler
    /\ scraping_jobs = NoScrapingJobs
    /\ norm \in {[pc |-> "raw", adapter |-> a, job |-> j, quality_score |-> 0] :
                    a \in RegisteredSet, j \in RawJobs}

\* quality_score = self._calculate_quality_score(raw_job)
Yotspot_score ==
    /\ norm.pc = "raw"
    /\ norm.adapter = "yotspot"
    /\ norm' = [norm EXCEPT
                  !.pc = "scored",
                  !.quality_score = Yotspot_calculate_quality_score(norm.job)]
    /\ UNCHANGED <<jobs_table, clock, uuid_next, records, run, all_sources, scheduler, scraping_jobs>>

\* quality_score = self._calculate_quality_score({...})
Daywork123_score ==
    /\ norm.pc = "raw"
    /\ norm.adapter = "daywork123"
    /\ norm' = [norm EXCEPT
                  !.pc = "scored",
                  !.quality_score = Daywork123_calculate_quality_score(norm.job)]
    /\ UNCHANGED <<jobs_table, clock, uuid_next, records, run, all_sources, scheduler, scraping_jobs>>

NextScore ==
    \/ Yotspot_score
    \/ Daywork123_score

SpecScore == InitScore /\ [][NextScore]_vars

\* ------------------------------------------------------------- extraction
\* Field limits of UniversalJob.
TitleMinLength == 3
TitleMaxLength == 200
CompanyMaxLength == 100
LocationMaxLength == 100
DescriptionMinLength == 10
\* Limits Daywork123Scraper cuts its fields to before it builds the job,
\* and the shortest title/description cell it goes on with.
DayworkTitleCut == 255
DayworkFirstLineCut == 100
DayworkDescriptionCut == 2000
DayworkMinCell == 10

\* In this part a text is modelled by its length in characters.  Lengths
\* on both sides of every limit:
TitleLens == {0, 2, 3, 4, 9, 10, 100, 101, 200, 201, 255, 256}
CompanyLens == {0, 7, 100, 101}
LocationLens == {0, 7, 100, 101}
RestLens == {0, 2000}

\* A Daywork123 table row with its five cells: whether the id cell has
\* text, the length of the company and location cells, and the
\* title/description cell, which is "POSITION: <title>", "Job title:
\* <title>" or just the title on its first line, followed by "rest"
\* characters of further lines.
DayworkRows ==
    {r \in [job_id : BOOLEAN, company : CompanyLens,
            shape : {"position", "colon", "plain"}, title : TitleLens,
            rest : RestLens, location : LocationLens] :
        (r.shape = "plain" /\ r.title = 0) => r.rest = 0}

\* A Yotspot card: whether it has a position link, the length of the link
\* text and of the location item (no item: "Unknown").
YotspotCards ==
    [has_title : BOOLEAN, title : TitleLens, location : LocationLens \ {0}]

\* len(title_description): the stripped text of cell 3.
TitleDescriptionLen(r) ==
    LET prefix == CASE r.shape = "position" -> IF r.title > 0 THEN 10 ELSE 9
                    [] r.shape = "colon" -> IF r.title > 0 THEN 11 ELSE 10
                    [] OTHER -> 0
    IN  prefix + r.title + r.rest

\* The title parsed from the first line: what follows "POSITION:" or the
\* colon, else first_line[:100].
DayworkTitle(r) ==
    IF r.shape = "plain" THEN Min(r.title, DayworkFirstLineCut) ELSE r.title

\* UniversalJob(...): TRUE iff pydantic accepts the field lengths and the
\* score.
Validates(job) ==
    /\ job.title >= TitleMinLength /\ job.title <= TitleMaxLength
    /\ job.company <= CompanyMaxLength
    /\ job.location <= LocationMaxLength
    /\ job.description >= DescriptionMinLength
    /\ job.quality_score \in 0..100

\* Daywork123Scraper._extract_job_from_element without the validation:
\* the job its fields are cut to.
DayworkJob(r) ==
    LET title == Min(DayworkTitle(r), DayworkTitleCut)
        company == IF r.company > 0 THEN Min(r.company, CompanyMaxLength)
                   ELSE 10
        location == IF r.location > 0 THEN Min(r.location, LocationMaxLength)
                    ELSE 7
        cut == Min(TitleDescriptionLen(r), DayworkDescriptionCut)
        description == IF cut < DescriptionMinLength THEN 60 + title ELSE cut
    IN  [title |-> title, company |-> company, location |-> location,
         description |-> description,
         quality_score |->
            Daywork123_calculate_quality_score(
               [title |-> title > 0, company |-> TRUE, location |-> TRUE,
                url |-> TRUE, external_id |-> TRUE,
                description |-> description])]

\* YotspotScraper._normalize_job without the validation: company is
\* "Yotspot", the description is the title, nothing is cut.
YotspotJob(c) ==
    [title |-> c.title, company |-> 7, location |-> c.location,
     description |-> c.title,
     quality_score |->
        Yotspot_calculate_quality_score(
           [title |-> c.title > 0, company |-> TRUE, location |-> TRUE,
            url |-> TRUE, external_id |-> TRUE, description |-> c.title])]

\* A row or card about to be extracted.
InitExtract ==
    /\ jobs_table = {}
    /\ clock = 1
    /\ uuid_next = 1
    /\ records = 0
    /\ run = [p \in Procs |-> IdleRun]
    /\ all_sources = IdleAll
    /\ scheduler = IdleScheduler
    /\ scraping_jobs = NoScrapingJobs
    /\ norm \in {[pc |-> "card", adapter |-> "daywork123", raw |-> r,
                  classified |-> 0, out |-> Null] : r \in DayworkRows}
           \cup {[pc |-> "card", adapter |-> "yotspot", raw |-> c,
                  classified |-> 0, out |-> Null] : c \in YotspotCards}

\* Daywork123Scraper._extract_job_from_element: None for a row without id
\* or with a title/description cell of less than 10 characters; else the
\* detections on the parsed title, the cuts, and the UniversalJob, or None
\* when its validation raises.  "classified" is the length of the title
\* the detections were given.
Daywork123_extract_job_from_element ==
    LET r == norm.raw
        job == DayworkJob(r)
    IN  /\ norm.pc = "card"
        /\ norm.adapter = "daywork123"
        /\ norm' =
              IF ~r.job_id \/ TitleDescriptionLen(r) < DayworkMinCell
              THEN [norm EXCEPT !.pc = "done"]
              ELSE IF Validates(job)
              THEN [norm EXCEPT !.pc = "done", !.out = job,
                                !.classified = DayworkTitle(r)]
              ELSE [norm EXCEPT !.pc = "done",
                                !.classified = DayworkTitle(r)]
        /\ UNCHANGED <<jobs_table, clock, uuid_next, records, run, all_sources, scheduler, scraping_jobs>>

\* YotspotScraper._extract_job_data and _normalize_job: None for a card
\* without position link; else the detections and the UniversalJob, whose
\* validation error ends the card.
Yotspot_normalize_job ==
    LET c == norm.raw
        job == YotspotJob(c)
    IN  /\ norm.pc = "card"
        /\ norm.adapter = "yotspot"
        /\ norm' =
              IF ~c.has_title
              THEN [norm EXCEPT !.pc = "done"]
              ELSE IF Validates(job)
              THEN [norm EXCEPT !.pc = "done", !.out = job,
                                !.classified = c.title]
              ELSE [norm EXCEPT !.pc = "done", !.classified = c.title]
        /\ UNCHANGED <<jobs_table, clock, uuid_next, records, run, all_sources, scheduler, scraping_jobs>>

NextExtract ==
    \/ Daywork123_extract_job_from_element
    \/ Yotspot_normalize_job

SpecExtract == InitExtract /\ [][NextExtract]_vars

\* ------------------------------------- scrape_daywork123_to_db.py (script)
\* The job dicts the script is handed (scraper.jobs): the listing id and
\* the fields of one observation; 'quality_score' may be missing, which
\* the script reads with .get('quality_score', <default>).
ScrapedJob(id, v, has_score) ==
    IF has_score
    THEN [id |-> id, title |-> Val("title", v), company |-> Val("company", v),
          location |-> Val("location", v),
          posted_date |-> Val("posted_date", v),
          source_url |-> Val("source_url", v),
          quality_score |-> Val("quality_score", v)]
    ELSE [id |-> id, title |-> Val("title", v), company |-> Val("company", v),
          location |-> Val("location", v),
          posted_date |-> Val("posted_date", v),
          source_url |-> Val("source_url", v)]
ScrapedJobs == {ScrapedJob(id, v, h) : id \in ExtIds, v \in Versions, h \in BOOLEAN}

\* scraped_job.get(key, default)
Get(d, key, default) == IF key \in DOMAIN d THEN d[key] ELSE default

\* A literal the script writes into a column.
Literal(x) == <<"literal", x>>

\* external_id = f"dw123_{scraped_job.get('id', 'unknown')}" with the
\* source 'daywork123': the key the script looks a dict up by.
ScrapedKey(d) ==
    [external_id |-> "dw123_" \o Get(d, "id", "unknown"), source |-> "daywork123"]

\* parse_posted_date(scraped_job.get('posted_date', '')): the parsed date.
parse_posted_date(x) == <<"parsed", x>>

\* save_jobs_to_database, "Update existing job".
UpdateExisting_save_jobs_to_database(row, d, now) ==
    [row EXCEPT
        !["title"] = Get(d, "title", row["title"]),
        !["company"] = Get(d, "company", row["company"]),
        !["location"] = Get(d, "location", row["location"]),
        !["source_url"] = Get(d, "source_url", row["source_url"]),
        !["quality_score"] = Get(d, "quality_score", row["quality_score"]),
        !["raw_data"] = <<"dict", d>>,
        !["updated_at"] = now]

\* convert_to_db_job: the Job the script adds for a dict whose key is not
\* stored; three readings of utcnow().
convert_to_db_job(d, now) ==
    [BlankJob EXCEPT
        !["external_id"] = ScrapedKey(d).external_id,
        !["title"] = Get(d, "title", Literal("Unknown Title")),
        !["company"] = Get(d, "company", Literal("Unknown Company")),
        !["location"] = Get(d, "location", Literal("Unknown Location")),
        !["description"] = Get(d, "title", Literal("No description available")),
        !["source"] = "daywork123",
        !["source_url"] = Get(d, "source_url", Literal("")),
        !["employment_type"] = Literal("daywork"),
        !["job_type"] = Literal("daywork"),
        !["requirements"] = Literal("[]"),
        !["benefits"] = Literal("[]"),
        !["quality_score"] = Get(d, "quality_score", Literal("0.5")),
        !["raw_data"] = <<"dict", d>>,
        !["posted_date"] = parse_posted_date(Get(d, "posted_date", Literal(""))),
        !["scraped_at"] = <<"utcnow", now>>,
        !["created_at"] = now + 1,
        !["updated_at"] = now + 2]

\* save_jobs_to_database(scraped_jobs): an empty list returns 0 at once.
Call_save_jobs_to_database(p) ==
    /\ Idle(p)
    /\ \E js \in Batches(ScrapedJobs, MaxRecords - records) :
          /\ run' = [run EXCEPT ![p] =
                       [IdleRun EXCEPT !.pc = IF js = <<>> THEN "done" ELSE "dicts",
                                       !.op = "save_jobs_to_database",
                                       !.jobs = js,
                                       !.pre = jobs_table]]
          /\ records' = records + Len(js)
    /\ UNCHANGED <<jobs_table, clock, uuid_next, all_sources, norm, scheduler, scraping_jobs>>

\* One turn of "for scraped_job in scraped_jobs": look the key up, then
\* update the object found or add the converted job.
SaveScrapedJob(p) ==
    LET st == run[p]
        d == st.jobs[st.i]
        hits == QueryByKey(jobs_table, ScrapedKey(d))
        nextpc == IF st.i = Len(st.jobs) THEN "commit_dicts" ELSE "dicts"
    IN  /\ st.pc = "dicts"
        /\ \/ /\ hits # {}
              /\ LET e == Loaded(st.identity, CHOOSE r \in hits : TRUE)
                     e2 == [loaded |-> e.loaded,
                            cur |-> UpdateExisting_save_jobs_to_database(
                                       e.cur, d, clock)]
                 IN run' = [run EXCEPT ![p] =
                              [@ EXCEPT !.pc = nextpc, !.i = st.i + 1,
                                        !.identity = (@ \ {e}) \cup {e2},
                                        !.updated_jobs_count = @ + 1]]
              /\ clock' = clock + 1
           \/ /\ hits = {}
              /\ run' = [run EXCEPT ![p] =
                           [@ EXCEPT !.pc = nextpc, !.i = st.i + 1,
                                     !.new = Append(@, convert_to_db_job(d, clock)),
                                     !.saved_count = @ + 1]]
              /\ clock' = clock + 3
        /\ UNCHANGED <<jobs_table, uuid_next, records, all_sources, norm, scheduler, scraping_jobs>>

\* db.commit() of the script: as Commit; the script returns
\* saved_count + updated_count, or 0 after a rollback.
CommitScraped(p) ==
    LET st == run[p]
        updated == AfterUpdates(jobs_table, st.identity)
    IN  /\ st.pc = "commit_dicts"
        /\ \/ /\ IntegrityOK(jobs_table, st.new)
              /\ jobs_table' = updated \cup Inserted(st.new, uuid_next, clock)
              /\ uuid_next' = uuid_next + Len(st.new)
              /\ clock' = clock + 1
              /\ run' = [run EXCEPT ![p] =
                           [@ EXCEPT !.pc = "done", !.outcome = "committed",
                                     !.result.saved =
                                         st.saved_count + st.updated_jobs_count]]
           \/ /\ ~IntegrityOK(jobs_table, st.new)
              /\ run' = [run EXCEPT ![p] =
                           [@ EXCEPT !.pc = "done", !.outcome = "rolled_back"]]
              /\ UNCHANGED <<jobs_table, uuid_next, clock, scheduler, scraping_jobs>>
        /\ UNCHANGED <<records, all_sources, norm, scheduler, scraping_jobs>>

\* The script run again and again by one process.
NextScript ==
    \/ Call_save_jobs_to_database("p1")
    \/ SaveScrapedJob("p1")
    \/ CommitScraped("p1")

SpecScript == Init /\ [][NextScript]_vars

\* ------------------------------------------------------------ date texts
\*
\* Specification SpecDates applies the four date parsers of the repository
\* to date texts read at an instant "now".  Time is counted in days.  A text
\* is a sequence of tokens: words, numbers, or one written date.

MaxTokens == 3
MaxDaysAgo == 3

Word(w) == <<"word", w>>
Num(n) == <<"num", n>>
WrittenDate(d) == <<"date", d>>

Datetime(d) == <<"datetime", d>>
NoDatetime == <<"None", 0>>

\* The instants at which a text is read, and the dates a text can spell out
\* ("12 jan 2024"): one before every instant and one after.
Instants == 1000..1001
WrittenDates == {990, 1010}

DateWords ==
    {Word(w) : w \in {"posted", "today", "yesterday", "ago", "hours",
                      "minutes", "day", "days", "soon"}}
       \cup {Num(n) : n \in 1..MaxDaysAgo}

DateTexts ==
    UNION {[1..n -> DateWords] : n \in 0..MaxTokens}
       \cup {<<WrittenDate(d)>> : d \in WrittenDates}
       \cup {<<Word("posted"), WrittenDate(d)>> : d \in WrittenDates}

\* "w in date_str" for a word w of ws.
Contains(text, ws) == \E i \in 1..Len(text) : text[i] \in {Word(w) : w \in ws}

\* re.search(r'(\d+)\s+days?', date_str) and re.search(r'(\d+)\s+day',
\* date_str): the number of the leftmost number followed by "day" or "days",
\* 0 without a match.
DaysMatch(text) ==
    LET at == {i \in 1..(Len(text) - 1) :
                 /\ text[i][1] = "num"
                 /\ text[i + 1] \in {Word("day"), Word("days")}}
    IN  IF at = {} THEN 0
        ELSE text[CHOOSE i \in at : \A j \in at : i <= j][2]

\* date_str.replace('posted ', '').strip(): every "posted" that another
\* token follows goes.
RECURSIVE DropPosted(_)
DropPosted(text) ==
    IF Len(text) <= 1 THEN text
    ELSE IF Head(text) = Word("posted") THEN DropPosted(Tail(text))
    ELSE <<Head(text)>> \o DropPosted(Tail(text))

\* datetime.strptime(cleaned_date_str, '%d %b %Y') succeeds.
IsWrittenDate(text) == Len(text) = 1 /\ text[1][1] = "date"

\* Variant of _normalize_date that adds the days of "N days" to now.
yotspot_scraper_normalize_date_Ahead(text, now) ==
    IF text = <<>> THEN Datetime(now - 999)
    ELSE LET s == DropPosted(text)
         IN  IF Contains(s, {"today", "hours"}) THEN Datetime(now)
             ELSE IF Contains(s, {"yesterday"}) THEN Datetime(now - 1)
             ELSE IF DaysMatch(s) # 0 THEN Datetime(now + DaysMatch(s))
             ELSE IF IsWrittenDate(s) THEN Datetime(s[1][2])
             ELSE Datetime(now - 999)

\* yotspot_scraper.py, YotspotScraper._normalize_date.
yotspot_scraper_normalize_date(text, now) ==
    IF text = <<>> THEN Datetime(now - 999)
    ELSE LET s == DropPosted(text)
         IN  IF Contains(s, {"today", "hours"}) THEN Datetime(now)
             ELSE IF Contains(s, {"yesterday"}) THEN Datetime(now - 1)
             ELSE IF DaysMatch(s) # 0 THEN Datetime(now - DaysMatch(s))
             ELSE IF IsWrittenDate(s) THEN Datetime(s[1][2])
             ELSE Datetime(now - 999)

\* ai_studio_code.py, YotspotScraper._normalize_date.
ai_studio_code_normalize_date(text, now) ==
    IF text = <<>> THEN Datetime(now - 99)
    ELSE IF Contains(text, {"today", "hours", "minutes"}) THEN Datetime(now)
    ELSE IF Contains(text, {"yesterday"}) THEN Datetime(now - 1)
    ELSE IF DaysMatch(text) # 0 THEN Datetime(now - DaysMatch(text))
    ELSE Datetime(now - 99)

\* What the call dateparser.parse(date_text, ...) does: it returns a
\* datetime, returns None for a text it cannot read, or raises.
DateparserOutcomes ==
    {Datetime(d) : d \in WrittenDates} \cup {<<"None", 0>>, <<"raise", 0>>}

\* The texts handed to the adapters' _parse_date, which only tells the empty
\* text from the others.
ParseDateTexts ==
    {<<>>, <<Word("soon")>>, <<Num(2), Word("days"), Word("ago")>>}

\* app/scrapers/yotspot.py, YotspotScraper._parse_date: None for the empty
\* text, else what dateparser answers, utcnow() when it raises.
Yotspot_parse_date(text, outcome, now) ==
    IF text = <<>> THEN NoDatetime
    ELSE IF outcome[1] = "raise" THEN Datetime(now)
    ELSE outcome

\* app/scrapers/daywork123.py, Daywork123Scraper._parse_date: the same body.
Daywork123_parse_date(text, outcome, now) ==
    IF text = <<>> THEN NoDatetime
    ELSE IF outcome[1] = "raise" THEN Datetime(now)
    ELSE outcome

NormalizeDateFns == {"yotspot_scraper", "ai_studio_code"}
ParseDateFns == {"yotspot", "daywork123"}

InitDates ==
    /\ jobs_table = {}
    /\ clock = 1
    /\ uuid_next = 1
    /\ records = 0
    /\ run = [p \in Procs |-> IdleRun]
    /\ all_sources = IdleAll
    /\ scheduler = IdleScheduler
    /\ scraping_jobs = NoScrapingJobs
    /\ norm \in {[pc |-> "text", fn |-> f, text |-> t, outcome |-> NoDatetime,
                  now |-> n, out |-> NoDatetime] :
                    f \in NormalizeDateFns, t \in DateTexts, n \in Instants}
                \cup
                {[pc |-> "text", fn |-> f, text |-> t, outcome |-> o,
                  now |-> n, out |-> NoDatetime] :
                    f \in ParseDateFns, t \in ParseDateTexts,
                    o \in DateparserOutcomes, n \in Instants}

Call_yotspot_scraper_normalize_date ==
    /\ norm.pc = "text"
    /\ norm.fn = "yotspot_scraper"
    /\ norm' = [norm EXCEPT
                  !.pc = "parsed",
                  !.out = yotspot_scraper_normalize_date(norm.text, norm.now)]
    /\ UNCHANGED <<jobs_table, clock, uuid_next, records, run, all_sources, scheduler, scraping_jobs>>

Call_ai_studio_code_normalize_date ==
    /\ norm.pc = "text"
    /\ norm.fn = "ai_studio_code"
    /\ norm' = [norm EXCEPT
                  !.pc = "parsed",
                  !.out = ai_studio_code_normalize_date(norm.text, norm.now)]
    /\ UNCHANGED <<jobs_table, clock, uuid_next, records, run, all_sources, scheduler, scraping_jobs>>

Call_Yotspot_parse_date ==
    /\ norm.pc = "text"
    /\ norm.fn = "yotspot"
    /\ norm' = [norm EXCEPT
                  !.pc = "parsed",
                  !.out = Yotspot_parse_date(norm.text, norm.outcome, norm.now)]
    /\ UNCHANGED <<jobs_table, clock, uuid_next, records, run, all_sources, scheduler, scraping_jobs>>

Call_Daywork123_parse_date ==
    /\ norm.pc = "text"
    /\ norm.fn = "daywork123"
    /\ norm' = [norm EXCEPT
                  !.pc = "parsed",
                  !.out = Daywork123_parse_date(norm.text, norm.outcome,
                                                norm.now)]
    /\ UNCHANGED <<jobs_table, clock, uuid_next, records, run, all_sources, scheduler, scraping_jobs>>

NextDates ==
    \/ Call_yotspot_scraper_normalize_date
    \/ Call_ai_studio_code_normalize_date
    \/ Call_Yotspot_parse_date
    \/ Call_Daywork123_parse_date

SpecDates == InitDates /\ [][NextDates]_vars

\* --------------------------------------------------------- the scheduler
\*
\* Specification SpecScheduler lets a client call start, stop, restart and
\* update_daywork123_schedule on one SchedulerService in any order.

HourLists == {<<6>>, <<6, 7>>, <<25>>}
MinuteLists == {<<0, 30>>, <<60>>}

\* The class attributes the environment can set: the defaults, or a day hour
\* no clock shows.
EnvConfigs == {DefaultConfig, [DefaultConfig EXCEPT !.DAY_HOURS = <<24>>]}

\* The keyword arguments of update_daywork123_schedule; Null is None. A call
\* supplies the lists of at most one period, as update_morning_schedule,
\* update_day_schedule and update_evening_schedule do.
NoArgs ==
    [morning_hours |-> Null, morning_minutes |-> Null, day_hours |-> Null,
     day_minutes |-> Null, evening_hours |-> Null, evening_minutes |-> Null]

ScheduleArgs ==
    {[NoArgs EXCEPT !.morning_hours = h, !.morning_minutes = m] :
        h \in HourLists \cup {Null}, m \in MinuteLists \cup {Null}}
    \cup {[NoArgs EXCEPT !.day_hours = h, !.day_minutes = m] :
             h \in HourLists \cup {Null}, m \in MinuteLists \cup {Null}}
    \cup {[NoArgs EXCEPT !.evening_hours = h, !.evening_minutes = m] :
             h \in HourLists \cup {Null}, m \in MinuteLists \cup {Null}}

\* The elements of a list.
Range(list) == {list[i] : i \in 1..Len(list)}

\* SchedulerConfig.get_total_daily_runs.
get_total_daily_runs(cls) ==
    Len(cls.MORNING_HOURS) * Len(cls.MORNING_MINUTES)
       + Len(cls.DAY_HOURS) * Len(cls.DAY_MINUTES)
       + Len(cls.EVENING_HOURS) * Len(cls.EVENING_MINUTES)

\* SchedulerConfig.validate_config.
validate_config(cls) ==
    /\ \A h \in Range(cls.MORNING_HOURS \o cls.DAY_HOURS \o cls.EVENING_HOURS) :
          0 <= h /\ h <= 23
    /\ \A m \in Range(cls.MORNING_MINUTES \o cls.DAY_MINUTES
                         \o cls.EVENING_MINUTES) :
          0 <= m /\ m <= 59
    /\ cls.DAYWORK123_MAX_PAGES > 0
    /\ cls.MAX_INSTANCES > 0

\* The id f'daywork123_{period}_{hour:02d}_{minute:02d}' of a job.
JobId(period, hour, minute) == <<"daywork123", period, hour, minute>>

\* CronTrigger(hour=hour, minute=minute) raises ValueError for a value
\* outside the field's range.
CronTriggerRaises(hour, minute) ==
    ~(0 <= hour /\ hour <= 23 /\ 0 <= minute /\ minute <= 59)

\* "for hour in hours: for minute in minutes": the ids in the order the
\* loops of one period add them.
PeriodJobs(period, hours, minutes) ==
    [k \in 1..(Len(hours) * Len(minutes)) |->
        JobId(period, hours[((k - 1) \div Len(minutes)) + 1],
                      minutes[((k - 1) % Len(minutes)) + 1])]

\* remove_daywork123_jobs.
remove_daywork123_jobs(jobs) == {j \in jobs : j[1] # "daywork123"}

\* ScrapingScheduler.schedule_daywork123_scraper on the instance config:
\* the jobs it leaves, and whether it raised.  An add_job whose trigger
\* cannot be built ends the loops; replace_existing=True makes a second
\* add of an id replace the first.
schedule_daywork123_scraper(jobs, config) ==
    LET ids == PeriodJobs("morning", config.MORNING_HOURS, config.MORNING_MINUTES)
                 \o PeriodJobs("day", config.DAY_HOURS, config.DAY_MINUTES)
                 \o PeriodJobs("evening", config.EVENING_HOURS,
                               config.EVENING_MINUTES)
        bad == {k \in 1..Len(ids) : CronTriggerRaises(ids[k][3], ids[k][4])}
        stop == IF bad = {} THEN Len(ids) + 1
                ELSE CHOOSE k \in bad : \A l \in bad : k <= l
    IN  [jobs |-> remove_daywork123_jobs(jobs) \cup {ids[k] : k \in 1..(stop - 1)},
         raised |-> bad # {}]

\* ScrapingScheduler.start: the scheduler after it, and whether it raised.
\* AsyncIOScheduler.start raises SchedulerAlreadyRunningError on a running
\* scheduler.
ScrapingScheduler_start(s) ==
    IF ~validate_config(s.class_config) \/ s.running
    THEN [s |-> s, raised |-> TRUE, scheduled |-> FALSE]
    ELSE LET r == schedule_daywork123_scraper(s.jobs, s.config)
         IN  [s |-> [s EXCEPT !.running = TRUE, !.jobs = r.jobs],
              raised |-> r.raised, scheduled |-> ~r.raised]

\* ScrapingScheduler.stop.
ScrapingScheduler_stop(s) == [s EXCEPT !.running = FALSE]

\* SchedulerService.start.
start(s) ==
    IF s._running THEN [s |-> s, raised |-> FALSE, scheduled |-> FALSE]
    ELSE LET r == ScrapingScheduler_start(s)
         IN  IF r.raised THEN r
             ELSE [r EXCEPT !.s = [r.s EXCEPT !._running = TRUE]]

\* SchedulerService.stop.
stop(s) ==
    IF ~s._running THEN s
    ELSE [ScrapingScheduler_stop(s) EXCEPT !._running = FALSE]

\* "if x is not None: self.config.X = x" for the six lists.
Supplied(config, args) ==
    [config EXCEPT
       !.MORNING_HOURS = IF args.morning_hours # Null THEN args.morning_hours ELSE @,
       !.MORNING_MINUTES = IF args.morning_minutes # Null THEN args.morning_minutes ELSE @,
       !.DAY_HOURS = IF args.day_hours # Null THEN args.day_hours ELSE @,
       !.DAY_MINUTES = IF args.day_minutes # Null THEN args.day_minutes ELSE @,
       !.EVENING_HOURS = IF args.evening_hours # Null THEN args.evening_hours ELSE @,
       !.EVENING_MINUTES = IF args.evening_minutes # Null THEN args.evening_minutes ELSE @]

Answer(raised, success, scheduled) ==
    [raised |-> raised, success |-> success, scheduled |-> scheduled]

InitScheduler ==
    /\ jobs_table = {}
    /\ clock = 1
    /\ uuid_next = 1
    /\ records = 0
    /\ run = [p \in Procs |-> IdleRun]
    /\ all_sources = IdleAll
    /\ norm = Null
    /\ scheduler \in {[IdleScheduler EXCEPT !.class_config = c, !.config = c] :
                         c \in EnvConfigs}
    /\ scraping_jobs = NoScrapingJobs

SchedulerService_start ==
    LET r == start(scheduler)
    IN  /\ scheduler' = [r.s EXCEPT
                           !.call = [op |-> "start", args |-> NoArgs],
                           !.result = Answer(r.raised, ~r.raised, r.scheduled)]
        /\ UNCHANGED <<jobs_table, clock, uuid_next, records, run, all_sources,
                       norm, scraping_jobs>>

SchedulerService_stop ==
    /\ scheduler' = [stop(scheduler) EXCEPT
                       !.call = [op |-> "stop", args |-> NoArgs],
                       !.result = Answer(FALSE, TRUE, FALSE)]
    /\ UNCHANGED <<jobs_table, clock, uuid_next, records, run, all_sources,
                   norm, scraping_jobs>>

\* SchedulerService.restart: stop, then start.
SchedulerService_restart ==
    LET r == start(stop(scheduler))
    IN  /\ scheduler' = [r.s EXCEPT
                           !.call = [op |-> "restart", args |-> NoArgs],
                           !.result = Answer(r.raised, ~r.raised, r.scheduled)]
        /\ UNCHANGED <<jobs_table, clock, uuid_next, records, run, all_sources,
                       norm, scraping_jobs>>

\* SchedulerService.update_daywork123_schedule: the lists are assigned to
\* the instance, validate_config (a classmethod) reads the class, and the
\* jobs are scheduled from the instance.
SchedulerService_update_daywork123_schedule ==
    \E args \in ScheduleArgs :
        LET config == Supplied(scheduler.config, args)
            r == schedule_daywork123_scraper(scheduler.jobs, config)
            call == [op |-> "update_daywork123_schedule", args |-> args]
        IN  /\ scheduler' =
                  IF ~validate_config(scheduler.class_config)
                  THEN [scheduler EXCEPT
                          !.config = config,
                          !.call = call,
                          !.result = Answer(FALSE, FALSE, FALSE)]
                  ELSE [scheduler EXCEPT
                          !.config = config,
                          !.jobs = r.jobs,
                          !.call = call,
                          !.result = Answer(FALSE, ~r.raised, ~r.raised)]
            /\ UNCHANGED <<jobs_table, clock, uuid_next, records, run,
                           all_sources, norm, scraping_jobs>>

NextScheduler ==
    \/ SchedulerService_start
    \/ SchedulerService_stop
    \/ SchedulerService_restart
    \/ SchedulerService_update_daywork123_schedule

SpecScheduler == InitScheduler /\ [][NextScheduler]_vars

\* ------------------------------------------------- tracked executions
\*
\* Specification SpecTracked runs the executions that keep a ScrapingJob
\* record: the scheduled job function, its manual call through the
\* service, and the API trigger with its background task.  What the scrape
\* inside an execution answers is an input.  SpecTrackedFair adds that a
\* background task handed to the server is run.

MaxExecutions == 3
MaxFound == 1

\* models.py, the columns of ScrapingJob.
ScrapingJobColumns ==
    {"id", "status", "started_at", "completed_at", "jobs_found", "new_jobs",
     "error_message", "scraper_type"}

\* The declarative constructor raises TypeError for a keyword that is not
\* an attribute of the class.
ConstructorRaises(kwargs) == ~(kwargs \subseteq ScrapingJobColumns)

\* A new record: "started", the counters at their defaults.
StartedJob(id, scraper_type) ==
    [id |-> id, status |-> "started", scraper_type |-> scraper_type,
     jobs_found |-> 0, new_jobs |-> 0, error_message |-> Null]

\* The keys of the dict Daywork123Scraper.scrape_and_save_jobs returns.
ScrapeResultKeys ==
    {"source", "jobs_found", "jobs_saved", "duration", "timestamp", "success",
     "errors"}

\* What a scrape answers: the counts of a scrape that worked, or the zero
\* counts and the error of one that failed.  scrape_source,
\* scrape_all_sources and scrape_and_save_jobs catch every exception.
ScrapeAnswers ==
    UNION {{[failed |-> FALSE, jobs_found |-> n, new_jobs |-> k] : k \in 0..n} :
              n \in 0..MaxFound}
       \cup {[failed |-> TRUE, jobs_found |-> 0, new_jobs |-> 0]}

SchedulePeriods == {"morning", "day", "evening"}
ScrapeTargets == {"all", "daywork123", "yotspot"}

Executions == Len(scraping_jobs.rows) + Len(scraping_jobs.finished)

\* run_daywork123_scraping_job: the rows after it and the execution as it
\* went.  The function catches every exception and returns None.
run_daywork123_scraping_job(rows, period, answer) ==
    IF ConstructorRaises({"status", "started_at", "scraper_type", "job_id"})
    THEN [rows |-> rows,
          execution |-> [op |-> "run_daywork123_scraping_job", row |-> 0,
                         scrape |-> Null, raised |-> FALSE, success |-> FALSE]]
    ELSE LET id == Len(rows) + 1
             job == StartedJob(id, <<"daywork123", period>>)
         IN  [rows |-> Append(rows,
                          [job EXCEPT
                             !.status = "completed",
                             !.jobs_found = Cardinality(ScrapeResultKeys),
                             !.new_jobs = Cardinality(ScrapeResultKeys)]),
              execution |-> [op |-> "run_daywork123_scraping_job", row |-> id,
                             scrape |-> answer, raised |-> FALSE,
                             success |-> FALSE]]

InitTracked ==
    /\ jobs_table = {}
    /\ clock = 1
    /\ uuid_next = 1
    /\ records = 0
    /\ run = [p \in Procs |-> IdleRun]
    /\ all_sources = IdleAll
    /\ norm = Null
    /\ scheduler = IdleScheduler
    /\ scraping_jobs = NoScrapingJobs

\* A scheduled job fires.
Fire_run_daywork123_scraping_job ==
    /\ Executions < MaxExecutions
    /\ \E period \in SchedulePeriods, answer \in ScrapeAnswers :
          LET r == run_daywork123_scraping_job(scraping_jobs.rows, period, answer)
          IN  scraping_jobs' =
                 [scraping_jobs EXCEPT
                    !.rows = r.rows,
                    !.finished = Append(@, r.execution)]
    /\ UNCHANGED <<jobs_table, clock, uuid_next, records, run, all_sources,
                   norm, scheduler>>

\* SchedulerService.run_daywork123_now: the job function returned, so the
\* answer is success = True.
SchedulerService_run_daywork123_now ==
    /\ Executions < MaxExecutions
    /\ \E answer \in ScrapeAnswers :
          LET r == run_daywork123_scraping_job(scraping_jobs.rows, "manual",
                                               answer)
          IN  scraping_jobs' =
                 [scraping_jobs EXCEPT
                    !.rows = r.rows,
                    !.finished =
                       Append(@, [r.execution EXCEPT
                                    !.op = "run_daywork123_now",
                                    !.success = TRUE])]
    /\ UNCHANGED <<jobs_table, clock, uuid_next, records, run, all_sources,
                   norm, scheduler>>

\* main.py, trigger_scrape: the record is committed and the task handed to
\* the server.
trigger_scrape ==
    /\ Executions < MaxExecutions
    /\ \E source \in ScrapeTargets :
          LET id == Len(scraping_jobs.rows) + 1
          IN  scraping_jobs' =
                 [scraping_jobs EXCEPT
                    !.rows = Append(@, StartedJob(id, source)),
                    !.pending = Append(@, [id |-> id, source |-> source])]
    /\ UNCHANGED <<jobs_table, clock, uuid_next, records, run, all_sources,
                   norm, scheduler>>

\* main.py, run_scrape_task: the counts of the scrape go to the record with
\* status "completed"; an exception raised on the way (building the service
\* or the scraper, the query) gives "failed" with its message.
run_scrape_task ==
    /\ scraping_jobs.pending # <<>>
    /\ \E k \in 1..Len(scraping_jobs.pending), answer \in ScrapeAnswers,
          raised \in BOOLEAN :
          LET task == scraping_jobs.pending[k]
              rest == [i \in 1..(Len(scraping_jobs.pending) - 1) |->
                         IF i < k THEN scraping_jobs.pending[i]
                         ELSE scraping_jobs.pending[i + 1]]
          IN  scraping_jobs' =
                 [scraping_jobs EXCEPT
                    !.rows[task.id] =
                       IF raised
                       THEN [@ EXCEPT !.status = "failed",
                                      !.error_message = <<"str(e)">>]
                       ELSE [@ EXCEPT !.status = "completed",
                                      !.jobs_found = answer.jobs_found,
                                      !.new_jobs = answer.new_jobs],
                    !.pending = rest,
                    !.finished =
                       Append(@, [op |-> "run_scrape_task", row |-> task.id,
                                  scrape |-> IF raised THEN Null ELSE answer,
                                  raised |-> raised, success |-> FALSE])]
    /\ UNCHANGED <<jobs_table, clock, uuid_next, records, run, all_sources,
                   norm, scheduler>>

NextTracked ==
    \/ Fire_run_daywork123_scraping_job
    \/ SchedulerService_run_daywork123_now
    \/ trigger_scrape
    \/ run_scrape_task

SpecTracked == InitTracked /\ [][NextTracked]_vars

SpecTrackedFair == SpecTracked /\ WF_vars(run_scrape_task)

\* ------------------------------------------------------------ health check
\*
\* Specification SpecHealth runs health_check_all over the registered
\* scrapers.  What test_connection answers on each of its calls is an
\* input: "True", "False", or "raise" for an exception.

ProbeAnswers == {"True", "False", "raise"}

\* ScraperRegistry.get_all_scrapers(): an instance of every registered
\* class, in registration order.
get_all_scrapers == Registered

\* BaseScraper.health_check: the dict evaluates test_connection once for
\* "accessible" and once more for "status".  <<>> when a call raised.
health_check(source_name, probes) ==
    IF probes[1] = "raise" \/ probes[2] = "raise" THEN Null
    ELSE [source |-> source_name,
          accessible |-> probes[1] = "True",
          status |-> IF probes[2] = "True" THEN "healthy" ELSE "unhealthy"]

\* The entry health_check_all writes for a scraper whose check raised.
ErrorEntry(source_name) ==
    [source |-> source_name, accessible |-> FALSE, status |-> "error"]

InitHealth ==
    /\ jobs_table = {}
    /\ clock = 1
    /\ uuid_next = 1
    /\ records = 0
    /\ run = [p \in Procs |-> IdleRun]
    /\ all_sources = IdleAll
    /\ norm \in {[pc |-> "idle", probes |-> pr, k |-> 1, health_status |-> <<>>] :
                    pr \in [RegisteredSet -> ProbeAnswers \X ProbeAnswers]}
    /\ scheduler = IdleScheduler
    /\ scraping_jobs = NoScrapingJobs

\* ScrapingService.health_check_all is called.
Call_health_check_all ==
    /\ norm.pc = "idle"
    /\ norm' = [norm EXCEPT !.pc = "checking", !.k = 1, !.health_status = <<>>]
    /\ UNCHANGED <<jobs_table, clock, uuid_next, records, run, all_sources,
                   scheduler, scraping_jobs>>

\* One turn of the loop of health_check_all: the next scraper is checked
\* and its entry, or the error entry, is stored.
BaseScraper_health_check ==
    /\ norm.pc = "checking"
    /\ LET source_name == get_all_scrapers[norm.k]
           entry == health_check(source_name, norm.probes[source_name])
       IN  norm' = [norm EXCEPT
                      !.health_status =
                         Append(@, IF entry = Null THEN ErrorEntry(source_name)
                                   ELSE entry),
                      !.k = @ + 1,
                      !.pc = IF norm.k = Len(get_all_scrapers) THEN "checked"
                             ELSE "checking"]
    /\ UNCHANGED <<jobs_table, clock, uuid_next, records, run, all_sources,
                   scheduler, scraping_jobs>>

NextHealth ==
    \/ Call_health_check_all
    \/ BaseScraper_health_check

SpecHealth == InitHealth /\ [][NextHealth]_vars

\* ------------------------------------------------------------- properties
Done(p) == run[p].pc = "done"
IsSave(p) == run[p].jobs # <<>>
Saved(p) == Done(p) /\ run[p].outcome = "committed"

SameKey(a, b) == a["source"] = b["source"] /\ a["external_id"] = b["external_id"]

\* k is the last position in js that carries its key.
LastOfKey(js, k) == \A m \in (k + 1)..Len(js) : ~SameKey(js[m], js[k])

\* The row of table stored under job's key (when there is one).
StoredRow(table, job) == CHOOSE r \in QueryByKey(table, job) : TRUE

\* Successes a save reports: new + updated, or the saved count.
Successes(p) ==
    IF run[p].op = "save_jobs_to_db" THEN run[p].result.saved
    ELSE run[p].result.new_jobs + run[p].result.updated_jobs

\* C1: the jobs table never holds two rows with the same (source,
\* external_id), and when a save has returned every row that was stored
\* before it is still there under the same surrogate id and key: a stored
\* key is updated in place, never inserted again.
C1_NoDuplicateKey ==
    /\ \A r1, r2 \in jobs_table : SameKey(r1, r2) => r1 = r2
    /\ \A p \in Procs : Done(p) =>
          \A r \in run[p].pre :
             \E r2 \in jobs_table : r2["id"] = r["id"] /\ SameKey(r2, r)

\* C1 witness: a save that was handed an already stored key has committed.
C1_Witness ==
    \E p \in Procs :
       /\ Saved(p)
       /\ \E k \in 1..Len(run[p].jobs) : QueryByKey(run[p].pre, run[p].jobs[k]) # {}

\* C2: a save whose keys are all stored already always commits; and after
\* a save that committed, each job whose key was stored before has exactly
\* one row, the one it had before (same id, same created_at), carrying the
\* title and salary_range of the job (of its last occurrence in the batch).
C2_UpdateInPlace ==
    \A p \in Procs : (Done(p) /\ IsSave(p)) =>
       LET js == run[p].jobs
           pre == run[p].pre
       IN  /\ (\A k \in 1..Len(js) : QueryByKey(pre, js[k]) # {})
                 => run[p].outcome = "committed"
           /\ run[p].outcome = "committed" =>
                \A k \in 1..Len(js) :
                   (QueryByKey(pre, js[k]) # {} /\ LastOfKey(js, k)) =>
                      LET old == StoredRow(pre, js[k])
                          row == StoredRow(jobs_table, js[k])
                      IN  /\ QueryByKey(jobs_table, js[k]) = {row}
                          /\ row["id"] = old["id"]
                          /\ row["created_at"] = old["created_at"]
                          /\ row["title"] = js[k]["title"]
                          /\ row["salary_range"] = js[k]["salary_range"]

\* C2 witness: a one-job save of a stored key with another title is done.
C2_Witness ==
    \E p \in Procs :
       /\ Saved(p)
       /\ Len(run[p].jobs) = 1
       /\ QueryByKey(run[p].pre, run[p].jobs[1]) # {}
       /\ StoredRow(run[p].pre, run[p].jobs[1])["title"] # run[p].jobs[1]["title"]
       /\ StoredRow(jobs_table, run[p].jobs[1])["title"] = run[p].jobs[1]["title"]

\* The stored row carries the same values as job in every column a save
\* copies from the job.
SameValues(row, job) == \A c \in SaveJobsUpdateCols : row[c] = job[c]

\* C3: after a committed save of a job that was already stored with the
\* same field values, the key still has exactly one row, its created_at is
\* unchanged and its updated_at is later than before.
C3_Idempotent ==
    \A p \in Procs : (Saved(p) /\ IsSave(p)) =>
       \A k \in 1..Len(run[p].jobs) :
          LET job == run[p].jobs[k]
              pre == run[p].pre
          IN  (QueryByKey(pre, job) # {} /\ LastOfKey(run[p].jobs, k)
                 /\ SameValues(StoredRow(pre, job), job)) =>
                 /\ Cardinality(QueryByKey(jobs_table, job)) = 1
                 /\ StoredRow(jobs_table, job)["created_at"]
                       = StoredRow(pre, job)["created_at"]
                 /\ StoredRow(jobs_table, job)["updated_at"]
                       > StoredRow(pre, job)["updated_at"]
                 /\ SameValues(StoredRow(jobs_table, job), job)

\* C3 witness: the same job has been saved a second time.
C3_Witness ==
    \E p \in Procs :
       /\ Saved(p)
       /\ Len(run[p].jobs) = 1
       /\ QueryByKey(run[p].pre, run[p].jobs[1]) # {}
       /\ SameValues(StoredRow(run[p].pre, run[p].jobs[1]), run[p].jobs[1])

\* C10: scrape_source of a name that is not registered ends with an error
\* naming the scraper, all counts zero, no page fetched and the table as it
\* was.
C10_UnknownSource ==
    \A p \in Procs :
       (Done(p) /\ run[p].op = "scrape_source"
          /\ run[p].source_name \notin RegisteredSet) =>
          /\ run[p].result.errors = <<"Unknown scraper: " \o run[p].source_name>>
          /\ run[p].result.jobs_found = 0
          /\ run[p].result.new_jobs = 0
          /\ run[p].result.updated_jobs = 0
          /\ run[p].fetched = 0
          /\ jobs_table = run[p].pre

\* C10 witness: scrape_source("nosuch") has returned.
C10_Witness ==
    \E p \in Procs :
       /\ Done(p)
       /\ run[p].op = "scrape_source"
       /\ run[p].source_name = "nosuch"

\* Record k of the batch cannot be written on top of table pre: its key is
\* not stored but its external_id is, under another source.
Violates(pre, js, k) ==
    /\ QueryByKey(pre, js[k]) = {}
    /\ \E r \in pre : r["external_id"] = js[k]["external_id"]

\* Exactly one record of the batch violates a constraint and the records
\* of the batch carry pairwise different external ids.
ExactlyOneViolates(pre, js) ==
    /\ Cardinality({k \in 1..Len(js) : Violates(pre, js, k)}) = 1
    /\ \A k1, k2 \in 1..Len(js) :
          k1 # k2 => js[k1]["external_id"] # js[k2]["external_id"]

\* C4: when exactly one record of a batch of N violates a store constraint,
\* every other record of the batch is stored with its values and the save
\* reports N - 1 successes.
C4_BatchIsolation ==
    \A p \in Procs :
       (Done(p) /\ IsSave(p) /\ ExactlyOneViolates(run[p].pre, run[p].jobs)) =>
          /\ \A k \in 1..Len(run[p].jobs) :
                ~Violates(run[p].pre, run[p].jobs, k) =>
                   /\ QueryByKey(jobs_table, run[p].jobs[k]) # {}
                   /\ StoredRow(jobs_table, run[p].jobs[k])["title"]
                         = run[p].jobs[k]["title"]
          /\ Successes(p) = Len(run[p].jobs) - 1

\* C5: when a key occurs twice in one batch, after the save the table holds
\* exactly one row for that key and it carries the values of the later
\* occurrence.
C5_LastWriteWins ==
    \A p \in Procs : (Done(p) /\ IsSave(p)) =>
       \A k1, k2 \in 1..Len(run[p].jobs) :
          (k1 < k2 /\ SameKey(run[p].jobs[k1], run[p].jobs[k2])
             /\ LastOfKey(run[p].jobs, k2)) =>
             /\ Cardinality(QueryByKey(jobs_table, run[p].jobs[k2])) = 1
             /\ StoredRow(jobs_table, run[p].jobs[k2])["title"]
                   = run[p].jobs[k2]["title"]

\* C6: a job whose external_id is already stored under another source is
\* stored as a row of its own, beside the other source's row, and the save
\* it is part of commits.
C6_SameExternalIdTwoSources ==
    \A p \in Procs : (Done(p) /\ IsSave(p)) =>
       \A k \in 1..Len(run[p].jobs) :
          (\E r \in run[p].pre :
              /\ r["external_id"] = run[p].jobs[k]["external_id"]
              /\ r["source"] # run[p].jobs[k]["source"]) =>
             /\ run[p].outcome = "committed"
             /\ QueryByKey(jobs_table, run[p].jobs[k]) # {}
             /\ \E r \in jobs_table :
                   /\ r["external_id"] = run[p].jobs[k]["external_id"]
                   /\ r["source"] # run[p].jobs[k]["source"]

\* The fields of a stored job a later observation may change.
MutableFields ==
    {"title", "company", "location", "country", "region",
     "employment_type", "department", "vessel_type",
     "salary_range", "salary_currency", "salary_period",
     "description", "requirements", "benefits", "quality_score"}

\* C7: after scrape_source has saved a job whose key was stored, every
\* mutable field of the stored row equals the job's value, and the identity
\* fields and created_at are the old ones.
C7_AllMutableFieldsOverwritten ==
    \A p \in Procs : (Saved(p) /\ run[p].op = "scrape_source") =>
       \A k \in 1..Len(run[p].jobs) :
          (QueryByKey(run[p].pre, run[p].jobs[k]) # {}
             /\ LastOfKey(run[p].jobs, k)) =>
             LET old == StoredRow(run[p].pre, run[p].jobs[k])
                 row == StoredRow(jobs_table, run[p].jobs[k])
             IN  /\ \A c \in MutableFields : row[c] = run[p].jobs[k][c]
                 /\ row["id"] = old["id"]
                 /\ row["created_at"] = old["created_at"]

\* The jobs of a batch, as a set.
Elems(js) == {js[k] : k \in 1..Len(js)}

\* Two batches that could each be saved on their own: within a batch no key
\* repeats, and no external_id is used with two sources.
WellFormedPair(js1, js2) ==
    /\ \A k1, k2 \in 1..Len(js1) : k1 # k2 => ~SameKey(js1[k1], js1[k2])
    /\ \A k1, k2 \in 1..Len(js2) : k1 # k2 => ~SameKey(js2[k1], js2[k2])
    /\ \A a, b \in Elems(js1) \cup Elems(js2) :
          a["external_id"] = b["external_id"] => a["source"] = b["source"]

\* C8: when two runs whose batches share a key that was not stored have
\* both finished, each run's batch has been committed and every key either
\* run yielded is stored exactly once.
C8_ConcurrentRuns ==
    (/\ Done("p1") /\ Done("p2") /\ IsSave("p1") /\ IsSave("p2")
     /\ WellFormedPair(run["p1"].jobs, run["p2"].jobs)
     /\ \E k1 \in 1..Len(run["p1"].jobs), k2 \in 1..Len(run["p2"].jobs) :
           /\ SameKey(run["p1"].jobs[k1], run["p2"].jobs[k2])
           /\ QueryByKey(run["p1"].pre, run["p1"].jobs[k1]) = {}
           /\ QueryByKey(run["p2"].pre, run["p2"].jobs[k2]) = {}) =>
       \A p \in Procs :
          /\ run[p].outcome = "committed"
          /\ \A k \in 1..Len(run[p].jobs) :
                Cardinality(QueryByKey(jobs_table, run[p].jobs[k])) = 1

\* C9: a scrape_source run whose batch commit failed reports a non-empty
\* error list, and its counts account for every record found.
C9_SaveFailureSurfaced ==
    \A p \in Procs :
       (Done(p) /\ run[p].op = "scrape_source"
          /\ run[p].outcome = "rolled_back") =>
          /\ run[p].result.errors # <<>>
          /\ run[p].result.jobs_found =
                run[p].result.new_jobs + run[p].result.updated_jobs
                   + Len(run[p].result.errors)

\* ------------------------------------------------ page-level properties
\* Page k of the run was reached and handed the adapter no job at all.
EmptyPage(p, k) ==
    run[p].pages[k].ok /\ PageYield(run[p].source_name, run[p].pages[k]) = <<>>

\* The positions <<page, card>> of the good cards the run was shown.
GoodCards(p) ==
    {pos \in (1..Len(run[p].pages)) \X (1..MaxRecords + 1) :
        /\ pos[2] <= Len(run[p].pages[pos[1]].cards)
        /\ IsGood(run[p].pages[pos[1]].cards[pos[2]])}

\* C11: when the first page of a source cannot be reached, the run stops
\* there (page 1 is the only page requested) and returns a result with a
\* non-empty error list.
C11_FirstPageUnreachable ==
    \A p \in Procs :
       (run[p].pages # <<>> /\ ~run[p].pages[1].ok) =>
          /\ Done(p)
          /\ run[p].requested = <<1>>
          /\ run[p].result.errors # <<>>

\* C12: when page 1 was reached and a later page could not be, the finished
\* run reports no error, and the jobs yielded by the earlier pages are
\* handed to the save and counted in jobs_found.
C12_LaterPageFailure ==
    \A p \in Procs :
       (/\ Done(p)
        /\ run[p].pages # <<>> /\ run[p].pages[1].ok
        /\ \E k \in 2..Len(run[p].pages) : ~run[p].pages[k].ok) =>
          /\ run[p].result.errors = <<>>
          /\ run[p].jobs = run[p].yielded
          /\ run[p].result.jobs_found = Len(run[p].yielded)
          /\ (run[p].yielded # <<>> => run[p].outcome # "none")

\* C13: pages are requested in the order 1, 2, ... up to max_pages, and a
\* page that was reached and yielded no job is the last page requested and
\* leaves the error list empty.
C13_PagesInOrderStopAtEmpty ==
    \A p \in Procs :
       /\ Len(run[p].requested) <= run[p].max_pages
       /\ \A k \in 1..Len(run[p].requested) : run[p].requested[k] = k
       /\ \A k \in 1..Len(run[p].pages) :
             EmptyPage(p, k) =>
                /\ k = Len(run[p].pages)
                /\ run[p].result.errors = <<>>

\* C15: when every page of a run was reached, each good card of each page
\* is yielded, whatever bad cards stand before or after it, and the yielded
\* jobs are the ones handed to the save.
C15_BadCardSkipped ==
    \A p \in Procs :
       (/\ run[p].pc \in {"loop", "commit", "done"}
        /\ run[p].pages # <<>>
        /\ \A k \in 1..Len(run[p].pages) : run[p].pages[k].ok) =>
          /\ \A pos \in GoodCards(p) :
                run[p].pages[pos[1]].cards[pos[2]][1] \in Elems(run[p].yielded)
          /\ Len(run[p].yielded) = Cardinality(GoodCards(p))
          /\ run[p].jobs = run[p].yielded

\* ------------------------------------------- scrape_all_sources property
\* The i-th event of a scrape_all_sources call that takes the registered
\* sources in order, one at a time, with the delay between two sources.
AllEvent(i) ==
    LET k == (i + 2) \div 3
        kind == <<"start", "return", "slept">>[((i - 1) % 3) + 1]
    IN  <<kind, Registered[k]>>

\* C14: scrape_all_sources starts each registered source once, in registry
\* order, each only after the one before it has returned and the delay has
\* passed; a scrape_source call is in progress only between its start and
\* its return; the list returned has one result per registered source in
\* registry order, whether or not a source's run failed.
C14_AllSourcesSequential ==
    LET st == all_sources
        n == Len(Registered)
    IN  /\ Len(st.log) <= 3 * n - 1
        /\ \A i \in 1..Len(st.log) : st.log[i] = AllEvent(i)
        /\ run["p1"].pc \notin {"idle", "done"} =>
              /\ st.log # <<>>
              /\ st.log[Len(st.log)] = <<"start", run["p1"].source_name>>
        /\ st.pc = "returned" =>
              /\ Len(st.log) = 3 * n - 1
              /\ Len(st.results) = n
              /\ \A k \in 1..n : st.results[k].source = Registered[k]

\* A scrape_all_sources call has returned, one of its sources failed and
\* another one found jobs.
C14_Witness ==
    /\ all_sources.pc = "returned"
    /\ \E k \in 1..Len(all_sources.results) :
          all_sources.results[k].errors # <<>>
    /\ \E k \in 1..Len(all_sources.results) :
          all_sources.results[k].jobs_found > 0


\* ------------------------------------------------ classification properties
\* No keyword of either adapter's lists occurs in the text.
NoKeyword(text) ==
    /\ \A i \in 1..Len(text) : KeywordsIn(Lower(text[i])) = {}
    /\ ~AnyIn(text, {<<"day", "work">>, <<"super", "yacht">>,
                     <<"chief", "stewardess">>, <<"chief", "engineer">>,
                     <<"sous", "chef">>, <<"head", "chef">>})

\* C18: a classified card has an employment type, a department and a vessel
\* type that are members of their enums, and texts without any keyword give
\* permanent, other and motor_yacht.
C18_ClassificationTotal ==
    norm.pc = "classified" =>
       /\ norm.employment_type \in EmploymentTypes
       /\ norm.department \in Departments
       /\ norm.vessel_type \in VesselTypes
       /\ (NoKeyword(Join(norm.title, norm.other))) =>
             /\ norm.employment_type = "permanent"
             /\ norm.department = "other"
             /\ norm.vessel_type = "motor_yacht"

\* A Daywork123 card with a title of words that hold no keyword has been
\* classified.
C18_Witness ==
    /\ norm.pc = "classified"
    /\ norm.adapter = "daywork123"
    /\ norm.title # <<>>
    /\ NoKeyword(Join(norm.title, norm.other))

\* The employment types the first-match table allows for a text: daywork
\* terms first, then rotational, seasonal, contract/temporary, else
\* permanent.
EmploymentTable(text) ==
    IF AnyIn(text, {<<"daywork">>, <<"day", "work">>, <<"daily">>})
    THEN {"daywork"}
    ELSE IF AnyIn(text, {<<"rotational">>, <<"rotation">>}) THEN {"rotational"}
    ELSE IF AnyIn(text, {<<"seasonal">>, <<"season">>}) THEN {"seasonal"}
    ELSE IF AnyIn(text, {<<"contract">>, <<"temporary">>})
    THEN {"contract", "temporary"}
    ELSE {"permanent"}

\* The text an adapter hands to its employment-type detection.
EmploymentText ==
    IF norm.adapter = "yotspot" THEN norm.other ELSE norm.title

\* C19: in both adapters the employment type of a classified card is the
\* one the first-match table gives for the text that was classified.
C19_EmploymentPriority ==
    norm.pc = "classified" =>
       norm.employment_type \in EmploymentTable(EmploymentText)

\* --------------------------------------------------- quality score property
\* C20: every score lies between 0 and 1 (0..100 hundredths); a job with
\* its four core fields, a url, an external id and a description of more
\* than 200 characters scores exactly 1.0; a job with nothing but a title
\* and a 10-character description scores 0.3, which is no more than
\* 0.3 + 0.2.
C20_QualityScoreBounds ==
    norm.pc = "scored" =>
       LET j == norm.job
       IN  /\ norm.quality_score \in 0..100
           /\ (/\ j.title /\ j.company /\ j.location /\ j.url /\ j.external_id
               /\ j.description > 200) => norm.quality_score = 100
           /\ (/\ j.title /\ ~j.company /\ ~j.location /\ ~j.url
               /\ ~j.external_id /\ j.description = 10) =>
                 /\ norm.quality_score <= 30 + 20
                 /\ norm.quality_score = 30

\* A complete Daywork123 job with a description of more than 200
\* characters has been scored.
C20_Witness ==
    /\ norm.pc = "scored"
    /\ norm.adapter = "daywork123"
    /\ norm.job.title /\ norm.job.company /\ norm.job.location
    /\ norm.job.url /\ norm.job.external_id
    /\ norm.job.description > 200

\* --------------------------------------------------- extraction properties
\* The length of the title the adapter reads from the row or card.
RawTitle ==
    IF norm.adapter = "yotspot" THEN norm.raw.title ELSE DayworkTitle(norm.raw)

\* The length of the description the source provides: the whole
\* title/description cell of a Daywork123 row; the title, which is all
\* YotspotScraper has, for a Yotspot card.
RawDescription ==
    IF norm.adapter = "yotspot" THEN norm.raw.title
    ELSE TitleDescriptionLen(norm.raw)

RawCompany == IF norm.adapter = "yotspot" THEN 7 ELSE norm.raw.company

\* The row or card can be identified (it has an id, or a position link).
Identified ==
    IF norm.adapter = "yotspot" THEN norm.raw.has_title ELSE norm.raw.job_id

\* The adapter returned a job for the row or card.
Kept == norm.out # Null

\* C16: an identified record whose title is valid and none of whose fields
\* is over its limit is turned into a job with a description that is not
\* empty, also when the source text for the description is missing or too
\* short.
C16_DescriptionFallback ==
    (/\ norm.pc = "done"
     /\ Identified
     /\ RawTitle >= TitleMinLength /\ RawTitle <= TitleMaxLength
     /\ RawCompany <= CompanyMaxLength
     /\ norm.raw.location <= LocationMaxLength) =>
       /\ Kept
       /\ norm.out.description > 0

\* C17: an identified record with a valid title and a long enough
\* description, whatever the lengths of its fields, is turned into a job
\* whose title, company, location and description are cut to their
\* limits, and the detections were given the title at its full length.
C17_TruncatedNotDropped ==
    (/\ norm.pc = "done"
     /\ Identified
     /\ RawTitle >= TitleMinLength
     /\ RawDescription >= DescriptionMinLength) =>
       /\ Kept
       /\ norm.out.title = Min(RawTitle, TitleMaxLength)
       /\ RawCompany > 0 =>
             norm.out.company = Min(RawCompany, CompanyMaxLength)
       /\ norm.raw.location > 0 =>
             norm.out.location = Min(norm.raw.location, LocationMaxLength)
       /\ norm.out.description = Min(RawDescription, DayworkDescriptionCut)
       /\ norm.classified = RawTitle
\* ------------------------------------------------- quality score on save
\* The key a save looks an observation up by, and the score that belongs
\* to the observation (the score of its own version of the fields).
ObservedKey(op, x) ==
    IF op = "save_jobs_to_database" THEN ScrapedKey(x)
    ELSE [external_id |-> x["external_id"], source |-> x["source"]]
ObservedScore(x) == Val("quality_score", x["title"][2])

Parsed(fns) == norm # Null /\ norm.pc = "parsed" /\ norm.fn \in fns

\* The text is not empty and dateparser could not read it.
Unparseable == norm.text # <<>> /\ norm.outcome[1] \in {"None", "raise"}

IsRelativeText(text) == \A i \in 1..Len(text) : text[i][1] # "date"

\* C22: the adapters' date parsing maps a non-empty text that cannot be
\* parsed to a timestamp more than 90 days before the current time: never
\* to null and never to the current time.
C22_UnparseableIsStale ==
    (Parsed(ParseDateFns) /\ Unparseable) =>
        /\ norm.out # NoDatetime
        /\ norm.out[2] < norm.now - 90

\* The legacy parsers answer an unreadable text with a date 999 or 99 days
\* back.
NormalizeDateIsStale ==
    (Parsed(NormalizeDateFns) /\ norm.text = <<Word("soon")>>) =>
        /\ norm.out # NoDatetime
        /\ norm.out[2] < norm.now - 90

\* C23: read at instant T, "N day(s) ago" gives T - N days, "yesterday"
\* gives T - 1 day, "today" and "N hours ago" give T, and no relative text
\* gives an instant later than T.
C23_RelativeDates ==
    Parsed(NormalizeDateFns) =>
        /\ \A n \in 1..MaxDaysAgo : \A d \in {"day", "days"} :
              norm.text = <<Num(n), Word(d), Word("ago")>> =>
                 norm.out = Datetime(norm.now - n)
        /\ norm.text = <<Word("yesterday")>> => norm.out = Datetime(norm.now - 1)
        /\ norm.text = <<Word("today")>> => norm.out = Datetime(norm.now)
        /\ \A n \in 1..MaxDaysAgo :
              norm.text = <<Num(n), Word("hours"), Word("ago")>> =>
                 norm.out = Datetime(norm.now)
        /\ IsRelativeText(norm.text) => norm.out[2] <= norm.now

C23_Witness ==
    /\ Parsed(NormalizeDateFns)
    /\ norm.text = <<Num(2), Word("days"), Word("ago")>>
    /\ norm.out = Datetime(norm.now - 2)

\* -------------------------------------------- properties of the scheduler

\* The last call on the service ran schedule_daywork123_scraper to its end.
Scheduled == scheduler.result # Null /\ scheduler.result.scheduled

\* The ids of one job per (period, hour, minute) of a configuration.
JobsOfConfig(config) ==
    {JobId("morning", h, m) : h \in Range(config.MORNING_HOURS),
                               m \in Range(config.MORNING_MINUTES)}
    \cup {JobId("day", h, m) : h \in Range(config.DAY_HOURS),
                                m \in Range(config.DAY_MINUTES)}
    \cup {JobId("evening", h, m) : h \in Range(config.EVENING_HOURS),
                                    m \in Range(config.EVENING_MINUTES)}

\* ScrapingScheduler.get_scheduler_status: 'daywork123_jobs' and
\* config['total_daily_runs'].
StatusDaywork123Jobs ==
    Cardinality({j \in scheduler.jobs : j[1] = "daywork123"})

StatusTotalDailyRuns == get_total_daily_runs(scheduler.class_config)

\* The jobs are those of the configuration in effect, and no other.
JobsAreOfConfigInEffect ==
    Scheduled => scheduler.jobs = JobsOfConfig(scheduler.config)

\* C24: after schedule_daywork123_scraper completes, the daywork123 jobs
\* are exactly one per (period, hour, minute) of the configuration in
\* effect, none of an earlier configuration remains, and their number is
\* get_total_daily_runs(), which get_scheduler_status reports as
\* config.total_daily_runs.
C24_JobsMatchConfig ==
    Scheduled =>
        /\ scheduler.jobs = JobsOfConfig(scheduler.config)
        /\ StatusDaywork123Jobs = StatusTotalDailyRuns

\* A supplied hour is outside 0..23 or a supplied minute outside 0..59.
InvalidArgs(args) ==
    \/ \E f \in {"morning_hours", "day_hours", "evening_hours"} :
          \E h \in Range(args[f]) : ~(0 <= h /\ h <= 23)
    \/ \E f \in {"morning_minutes", "day_minutes", "evening_minutes"} :
          \E m \in Range(args[f]) : ~(0 <= m /\ m <= 59)

\* The step is a call of update_daywork123_schedule with invalid lists.
InvalidUpdate ==
    /\ scheduler'.call # Null
    /\ scheduler'.call.op = "update_daywork123_schedule"
    /\ InvalidArgs(scheduler'.call.args)

\* C25: update_daywork123_schedule with an hour outside 0..23 or a minute
\* outside 0..59 answers success = false and leaves the configuration and
\* the scheduled daywork123 jobs as they were before the call.
C25_InvalidUpdateChangesNothing ==
    [][InvalidUpdate =>
          /\ ~scheduler'.result.success
          /\ scheduler'.config = scheduler.config
          /\ scheduler'.jobs = scheduler.jobs]_vars

\* The answer alone: an invalid update never reports success.
InvalidUpdateFails ==
    [][InvalidUpdate => ~scheduler'.result.success]_vars

\* C29: after any sequence of start, stop and restart calls, failed starts
\* included, the _running flag of the service is true exactly when the
\* underlying scheduler is running.
C29_RunningFlagMatches == scheduler._running <=> scheduler.running

\* ------------------------------------ properties of the tracked executions

\* The scrape of an execution ran and did not fail.
ScrapeSucceeded(e) == e.scrape # Null /\ ~e.scrape.failed

\* The execution has its record, and the record says how the scrape went.
Tracked(e) ==
    /\ e.row \in 1..Len(scraping_jobs.rows)
    /\ LET job == scraping_jobs.rows[e.row]
       IN  IF ScrapeSucceeded(e)
           THEN job.status = "completed" /\ job.jobs_found = e.scrape.jobs_found
           ELSE job.status = "failed" /\ job.error_message # Null

FinishedExecutions ==
    {scraping_jobs.finished[k] : k \in 1..Len(scraping_jobs.finished)}

IsStarted(id) ==
    id <= Len(scraping_jobs.rows) /\ scraping_jobs.rows[id].status = "started"

IsTerminal(id) ==
    id <= Len(scraping_jobs.rows)
       /\ scraping_jobs.rows[id].status \in {"completed", "failed"}

\* No record stays "started" forever.
StartedLeadsToTerminal ==
    \A id \in 1..MaxExecutions : IsStarted(id) ~> IsTerminal(id)

\* C26: every tracked execution creates exactly one record in status
\* "started" and eventually moves it to "completed", with jobs_found the
\* number of jobs the scrape found, when the scrape succeeded, or to "failed"
\* with an error message when the scrape failed; no record stays "started"
\* forever.
C26_TrackedExecutions ==
    /\ [](\A e \in FinishedExecutions : Tracked(e))
    /\ \A id \in 1..MaxExecutions : IsStarted(id) ~> IsTerminal(id)

\* The same for the executions of run_scrape_task alone.
TasksTracked ==
    \A e \in FinishedExecutions : e.op = "run_scrape_task" => Tracked(e)

\* run_scrape_task on a scrape that worked.
TasksOfGoodScrapesTracked ==
    \A e \in FinishedExecutions :
       (e.op = "run_scrape_task" /\ (e.raised \/ ScrapeSucceeded(e))) => Tracked(e)

\* C27: run_daywork123_now answers success = true only if the Daywork123
\* scrape ran and completed without error.
C27_SuccessMeansScraped ==
    \A e \in FinishedExecutions :
       (e.op = "run_daywork123_now" /\ e.success) => ScrapeSucceeded(e)

\* ------------------------------------------- properties of the health check

HealthEntries ==
    IF norm # Null /\ norm.pc \in {"checking", "checked"}
    THEN {norm.health_status[k] : k \in 1..Len(norm.health_status)}
    ELSE {}

\* C28: in every result of health_check, status is "healthy" exactly when
\* accessible is true and "unhealthy" exactly when accessible is false,
\* whatever the probe answers on each of its calls.
C28_StatusMatchesAccessible ==
    \A entry \in HealthEntries :
       entry.status # "error" =>
          /\ entry.status = "healthy" <=> entry.accessible
          /\ entry.status = "unhealthy" <=> ~entry.accessible

\* The same when the probe of a source gives one answer on both calls.
SteadyProbesMatch ==
    \A entry \in HealthEntries :
       (entry.status # "error"
          /\ norm.probes[entry.source][1] = norm.probes[entry.source][2]) =>
             (entry.status = "healthy" <=> entry.accessible)

\* ----------------------------------------- the counts of a scrape_source

\* Every row of table before is a row of table after, under the same id.
NothingRemoved(before, after) ==
    \A r \in before : \E r2 \in after : r2["id"] = r["id"]

C30_RolledBack ==
    /\ Done("p1")
    /\ run["p1"].op = "scrape_source"
    /\ run["p1"].outcome = "rolled_back"
    /\ run["p1"].result.jobs_found >= 1

\* Step by step, also with other processes at work: the step that ends a
\* scrape_source call adds exactly its new_jobs rows, and no step removes
\* a row.
CallAddsItsNewJobs ==
    [][/\ NothingRemoved(jobs_table, jobs_table')
       /\ \A p \in Procs :
             (run[p].pc # "done" /\ run'[p].pc = "done"
                /\ run'[p].op = "scrape_source") =>
                   Cardinality(jobs_table')
                      = Cardinality(jobs_table) + run'[p].result.new_jobs]_vars

====
